---- MODULE Spec2Model ----
(***************************************************************************)
(* RainyModel: the routing and request-lifecycle engine.                   *)
(*                                                                         *)
(*   app/routing.py  RainyModelRouter: catalog construction, tier          *)
(*                   classification, HF-credit gate, planning              *)
(*   app/main.py     chat_completions (prelude, fallback loop) and the     *)
(*                   SSE generator _stream_chunks                          *)
(*   app/analytics.py MetricsCollector (record store)                      *)
(*                                                                         *)
(* Text is modelled as a sequence of tokens (each token a piece of the     *)
(* Python string), so `in`, startswith and lower() are computed on the     *)
(* text and not assumed.  Python dicts are functions (records); a dict     *)
(* compares by value, exactly as a TLA+ record does.                       *)
(***************************************************************************)
EXTENDS Naturals, Integers, Sequences, FiniteSets, TLC

(***************************************************************************)
(* Bounds of the model.                                                    *)
(***************************************************************************)
MaxEntries == 3      \* longest model_list handed to RainyModelRouter
MaxTime == 3         \* last instant of the clock
MaxDuration == 1     \* longest duration given to mark_hf_credits_exhausted
MaxGateDuration == 2     \* GateSpec: the longest block mark_hf_credits_exhausted is given
MaxLogQueryCap == 3      \* LogSpec: capacity of the log store
MaxIterations == 3       \* ExpandSpec: iterations of _expand_env's loop that are followed
MaxChunks == 2       \* most chunks an upstream stream yields
MaxRequests == 1     \* chat-completion requests served one after another
MaxBagRequests == 2  \* requests served one after another where parameter bags are studied
MaxLimiterRequests == 62  \* requests sent where the rate limiter is studied
MaxRecordsCap == 2   \* max_records of the MetricsCollector under threads
MaxLogsCap == 1      \* max_logs of the MetricsCollector under threads
MaxQueryCap == 3     \* max_records of the MetricsCollector the queries are run on
MaxLimit == 4        \* largest limit given to get_request_log
MaxLatencyRecords == 21  \* most records in the store the latency statistics are taken of

(***************************************************************************)
(* Text helpers.                                                           *)
(***************************************************************************)
Range(s) == {s[i] : i \in 1..Len(s)}

\* Python: sub in s
Contains(s, sub) ==
    \E i \in 1..(Len(s) + 1) :
        /\ i + Len(sub) - 1 <= Len(s)
        /\ SubSeq(s, i, i + Len(sub) - 1) = sub

\* Python: s.startswith(p)
StartsWith(s, p) == Len(s) >= Len(p) /\ SubSeq(s, 1, Len(p)) = p

\* Python: str.lower(), token by token
LowerTok(t) ==
    CASE t = "HF" -> "hf"
      [] t = "Premium" -> "premium"
      [] t = "Internal" -> "internal"
      [] OTHER -> t

Lower(s) == [i \in 1..Len(s) |-> LowerTok(s[i])]

\* Python: d.get(k, default)
Get(d, k, default) == IF k \in DOMAIN d THEN d[k] ELSE default

(***************************************************************************)
(* routing.py: the tiers and the derived route_info.                       *)
(***************************************************************************)
TIER_FREE_OLLAMAFREE == "free-ollamafree"
TIER_FREE_HF == "free-hf"
TIER_INTERNAL == "internal"
TIER_PREMIUM == "premium"

\* os.getenv(..., default) with the environment unset
OllamaPrimary == <<"164.92.147.36:11434">>
OllamaSecondary == <<"178.128.196.3:11434">>
OllamaBase == <<"localhost:11434">>

\* a classifier that tests the Ollama-host/internal rule before the openrouter/premium rule
_classify_tier_InternalFirst(params, desc) ==
    LET api_base == Get(params, "api_base", <<>>)
        model == Get(params, "model", <<>>)
    IN  IF Contains(api_base, <<"ollamafreeapi">>) \/ Contains(desc, <<"ollamafree">>)
        THEN TIER_FREE_OLLAMAFREE
        ELSE IF \/ Contains(api_base, <<"huggingface">>)
                \/ Contains(desc, <<"hf">>)
                \/ StartsWith(model, <<"huggingface/">>)
        THEN TIER_FREE_HF
        ELSE IF \/ Contains(api_base, OllamaPrimary)
                \/ Contains(api_base, OllamaSecondary)
                \/ Contains(api_base, OllamaBase)
                \/ Contains(desc, <<"internal">>)
                \/ Contains(desc, <<"ollama">>)
        THEN TIER_INTERNAL
        ELSE TIER_PREMIUM

_classify_tier(params, desc) ==
    LET api_base == Get(params, "api_base", <<>>)
        model == Get(params, "model", <<>>)
    IN  IF Contains(api_base, <<"ollamafreeapi">>) \/ Contains(desc, <<"ollamafree">>)
        THEN TIER_FREE_OLLAMAFREE
        ELSE IF \/ Contains(api_base, <<"huggingface">>)
                \/ Contains(desc, <<"hf">>)
                \/ StartsWith(model, <<"huggingface/">>)
        THEN TIER_FREE_HF
        ELSE IF Contains(model, <<"openrouter">>) \/ Contains(desc, <<"premium">>)
        THEN TIER_PREMIUM
        ELSE IF \/ Contains(api_base, OllamaPrimary)
                \/ Contains(api_base, OllamaSecondary)
                \/ Contains(api_base, OllamaBase)
                \/ Contains(desc, <<"internal">>)
                \/ Contains(desc, <<"ollama">>)
        THEN TIER_INTERNAL
        ELSE TIER_PREMIUM

\* a mapping without the internal route
_tier_to_route_NoInternal(tier) ==
    IF tier \in {TIER_FREE_OLLAMAFREE, TIER_FREE_HF} THEN "free"
    ELSE "premium"

_tier_to_route(tier) ==
    IF tier \in {TIER_FREE_OLLAMAFREE, TIER_FREE_HF} THEN "free"
    ELSE IF tier = TIER_INTERNAL THEN "internal"
    ELSE "premium"

_tier_to_upstream(tier) ==
    IF tier = TIER_FREE_OLLAMAFREE THEN "ollamafreeapi"
    ELSE IF tier = TIER_FREE_HF THEN "hf"
    ELSE IF tier = TIER_INTERNAL THEN "ollama"
    ELSE "openrouter"

\* the deployment __init__ builds from one model_list entry
MakeDeployment(entry) ==
    LET name == Get(entry, "model_name", <<>>)
        params == Get(entry, "litellm_params", <<>>)
        info == Get(entry, "model_info", <<>>)
        desc == Lower(Get(info, "description", <<>>))
        tier == _classify_tier(params, desc)
    IN  [litellm_params |-> params,
         model_info |-> info,
         tier |-> tier,
         route_info |-> [route |-> _tier_to_route(tier),
                         upstream |-> _tier_to_upstream(tier),
                         model |-> Get(params, "model", name)]]

\* self._deployments.setdefault(name, []).append(deployment), entry by entry
RECURSIVE BuildCatalog(_)
BuildCatalog(model_list) ==
    IF model_list = <<>> THEN <<>>
    ELSE LET n == Len(model_list)
             sofar == BuildCatalog(SubSeq(model_list, 1, n - 1))
             entry == model_list[n]
             name == Get(entry, "model_name", <<>>)
             dep == MakeDeployment(entry)
         IN  [k \in (DOMAIN sofar) \cup {name} |->
                 IF k = name
                 THEN (IF k \in DOMAIN sofar THEN Append(sofar[k], dep) ELSE <<dep>>)
                 ELSE sofar[k]]

(***************************************************************************)
(* The configurations the catalog is built from.                           *)
(***************************************************************************)
AliasAuto == <<"rainymodel/", "auto">>
AliasChat == <<"rainymodel/", "chat">>

EntryHF(name) ==
    [model_name |-> name,
     litellm_params |-> [model |-> <<"huggingface/", "Qwen2.5">>,
                         api_base |-> <<"https://router.", "huggingface", ".co/v1">>],
     model_info |-> [description |-> <<"HF", " ", "router">>]]

EntryOllamaFree(name) ==
    [model_name |-> name,
     litellm_params |-> [model |-> <<"openai/", "llama3">>,
                         api_base |-> <<"https://", "ollamafreeapi", ".orcest.ai/v1">>],
     model_info |-> [description |-> <<"ollamafree", " ", "community">>]]

EntryInternal(name) ==
    [model_name |-> name,
     litellm_params |-> [model |-> <<"openai/", "qwen2.5">>,
                         api_base |-> <<"http://", "164.92.147.36:11434", "/v1">>],
     model_info |-> [description |-> <<"Internal", " ", "ollama">>]]

EntryPremium(name) ==
    [model_name |-> name,
     litellm_params |-> [model |-> <<"openrouter", "/anthropic/claude">>],
     model_info |-> [description |-> <<"Premium">>]]

\* an entry none of the classifier's keywords matches: premium by default
EntryDefault(name) ==
    [model_name |-> name,
     litellm_params |-> [model |-> <<"openai/", "gpt-4o">>,
                         api_base |-> <<"https://", "api.openai.com", "/v1">>],
     model_info |-> [description |-> <<"OpenAI", " ", "direct">>]]

EntryPool ==
    {EntryHF(AliasAuto), EntryOllamaFree(AliasAuto), EntryInternal(AliasAuto),
     EntryPremium(AliasAuto), EntryDefault(AliasAuto), EntryHF(AliasChat)}

RECURSIVE SeqsUpTo(_, _)
SeqsUpTo(S, n) ==
    IF n = 0 THEN {<<>>}
    ELSE LET shorter == SeqsUpTo(S, n - 1)
         IN  shorter \cup {Append(s, x) : s \in {t \in shorter : Len(t) = n - 1}, x \in S}

\* the model_lists: up to MaxEntries entries, those of rainymodel/auto in any order and
\* number, an entry of rainymodel/chat before or after them
ModelLists ==
    LET auto == SeqsUpTo({e \in EntryPool : e.model_name = AliasAuto}, MaxEntries)
        short == {s \in auto : Len(s) < MaxEntries}
    IN  auto \cup {<<EntryHF(AliasChat)>> \o s : s \in short}
             \cup {s \o <<EntryHF(AliasChat)>> : s \in short}

\* the configurations of the request pipeline's runs: every entry under rainymodel/auto
LoopPool == {EntryHF(AliasAuto), EntryInternal(AliasAuto), EntryPremium(AliasAuto)}
LoopModelLists == SeqsUpTo(LoopPool, MaxEntries)

(***************************************************************************)
(* The state.                                                              *)
(***************************************************************************)
VARIABLES
    catalog,        \* RainyModelRouter._deployments: alias -> deployments
    hf_until,       \* RainyModelRouter._hf_credits_exhausted_until
    now,            \* time.time()
    plan,           \* the last planning call: its arguments, the gate it met, its result
    pc,             \* chat_completions: where the request in progress stands
    req,            \* the request in progress: body, policy header, start_time
    deployments,    \* chat_completions: local `deployments`
    idx,            \* chat_completions: deployments of the plan already consumed
    last_error,     \* chat_completions: local `last_error` (type name, or "None")
    route_info,     \* chat_completions: local `route_info`
    calls,          \* the litellm.acompletion calls of the request, in call order
    resp,           \* what the request was answered with
    gen,            \* the _stream_chunks generator of the response
    frames,         \* the SSE frames the generator has yielded
    audit,          \* events _audit_log emitted for the request
    records,        \* analytics.collector._records
    served,         \* chat-completion requests handled so far
    master_key,     \* os.getenv("RAINYMODEL_MASTER_KEY", "")
    _router,        \* main._router is not None
    _rm_router,     \* main._rm_router is not None
    rate_limits,    \* main._rate_limits: api key -> admission timestamps
    logs,           \* analytics.collector._logs
    caps,           \* MetricsCollector(max_records, max_logs): the maxlen of the two deques
    lock,           \* MetricsCollector._lock: the thread that holds it, or "None"
    threads,        \* the threads calling the collector: where each stands, its locals
    returned,       \* the value the last collector query returned
    expand,         \* main._expand_env on one string: where the call stands, its local `obj`
    environ,        \* os.environ
    _TOKEN_CACHE,   \* sso_auth._TOKEN_CACHE: token -> {payload, expires_at}
    sso,            \* the verify_sso_token coroutines: where each stands, its locals
    sso_history,    \* per token: when the issuer last accepted it, when it was last cached
    sso_ret         \* the last return of verify_sso_token: its value, from the cache or not

routerVars == <<catalog, hf_until, now, plan>>
requestVars == <<pc, req, deployments, idx, last_error, route_info, calls, resp,
                 gen, frames, audit, records, served>>
collectorVars == <<logs, caps, lock, threads, returned>>
appVars == <<master_key, _router, _rm_router, rate_limits, collectorVars>>
ssoVars == <<_TOKEN_CACHE, sso, sso_history, sso_ret>>
moduleVars == <<expand, environ, ssoVars>>
vars == <<routerVars, requestVars, appVars, moduleVars>>

Policies == {"auto", "premium", "free", "uncensored", "banana"}
\* the policies planning calls are made with (free has the row of auto)
PlanPolicies == {"auto", "premium", "uncensored", "banana"}
\* routing.py line 66
KNOWN_MODES == {"auto", "chat", "code", "agent", "document"}
\* routing.py lines 150-155; the handler of main.py never calls it
is_known_alias(model) ==
    IF ~StartsWith(model, <<"rainymodel/">>)
    THEN FALSE
    ELSE Len(model) = 2 /\ model[2] \in KNOWN_MODES
\* the aliases plans are asked for; rainymodel/chat has no deployment in most catalogs
PlanModels == {AliasAuto, AliasChat}
NoPlan == [model |-> <<>>, policy |-> "", hf_available |-> TRUE, result |-> <<>>]

\* values of the request variables while no request is in progress
NoReq == [body |-> <<>>, policy |-> "", start_time |-> 0]
UnknownRoute == [route |-> "unknown", upstream |-> "unknown", model |-> <<"unknown">>]
NoResp == [kind |-> "none", status |-> 0, headers |-> <<>>, body |-> <<>>, from |-> 0]
NoGen == [pc |-> "none", received |-> <<>>, error |-> "None"]

(***************************************************************************)
(* routing.py: the HF-credit gate and the planner.                         *)
(***************************************************************************)
\* a gate that never closes
_is_hf_available_Always == TRUE

_is_hf_available == now > hf_until

\* a table that gives the premium order to the policies it does not know
_get_tier_order_UnknownPremium(policy) ==
    IF policy = "uncensored" THEN <<TIER_INTERNAL, TIER_FREE_HF, TIER_PREMIUM>>
    ELSE IF policy \in {"auto", "free"} THEN <<TIER_FREE_HF, TIER_INTERNAL, TIER_PREMIUM>>
    ELSE <<TIER_PREMIUM, TIER_FREE_HF, TIER_INTERNAL>>

\* a table whose premium row is the auto row
_get_tier_order_PremiumAsAuto(policy) ==
    IF policy = "uncensored" THEN <<TIER_INTERNAL, TIER_FREE_HF, TIER_PREMIUM>>
    ELSE <<TIER_FREE_HF, TIER_INTERNAL, TIER_PREMIUM>>

_get_tier_order(policy) ==
    IF policy = "uncensored" THEN <<TIER_INTERNAL, TIER_FREE_HF, TIER_PREMIUM>>
    ELSE IF policy = "premium" THEN <<TIER_PREMIUM, TIER_FREE_HF, TIER_INTERNAL>>
    ELSE IF policy = "free" THEN <<TIER_FREE_HF, TIER_INTERNAL, TIER_PREMIUM>>
    ELSE <<TIER_FREE_HF, TIER_INTERNAL, TIER_PREMIUM>>

\* `dep not in result`: list membership, which compares dicts by value
NotInResult(dep, result) == dep \notin Range(result)

\* for dep in deployments: if dep["tier"] == tier and dep not in result: append
RECURSIVE AppendTier(_, _, _)
AppendTier(result, deps, tier) ==
    IF deps = <<>> THEN result
    ELSE LET dep == Head(deps)
         IN  AppendTier(IF dep.tier = tier /\ NotInResult(dep, result)
                        THEN Append(result, dep) ELSE result,
                        Tail(deps), tier)

\* for tier in order: skip free-hf while the gate is active
RECURSIVE TierLoop(_, _, _)
TierLoop(result, deps, order) ==
    IF order = <<>> THEN result
    ELSE LET tier == Head(order)
         IN  IF tier = TIER_FREE_HF /\ ~_is_hf_available
             THEN TierLoop(result, deps, Tail(order))
             ELSE TierLoop(AppendTier(result, deps, tier), deps, Tail(order))

\* for dep in deployments: if dep not in result: append
RECURSIVE AppendRest(_, _)
AppendRest(result, deps) ==
    IF deps = <<>> THEN result
    ELSE LET dep == Head(deps)
         IN  AppendRest(IF NotInResult(dep, result) THEN Append(result, dep) ELSE result,
                        Tail(deps))

deployments_for(model) == Get(catalog, model, <<>>)

\* a planner that balances load: asked again for the plan it gave last, it rotates it
get_ordered_deployments_RoundRobin(model, policy) ==
    LET deps == deployments_for(model)
        r == IF deps = <<>> THEN <<>>
             ELSE AppendRest(TierLoop(<<>>, deps, _get_tier_order(policy)), deps)
    IN  IF plan.model = model /\ plan.result = r /\ Len(r) > 1
        THEN Tail(r) \o <<Head(r)>>
        ELSE r

get_ordered_deployments(model, policy) ==
    LET deps == deployments_for(model)
    IN  IF deps = <<>> THEN <<>>
        ELSE AppendRest(TierLoop(<<>>, deps, _get_tier_order(policy)), deps)

select_deployment(model, policy) ==
    LET ordered == get_ordered_deployments(model, policy)
    IN  IF ordered # <<>> THEN <<ordered[1]>> ELSE <<>>

(***************************************************************************)
(* The router's operations.                                                *)
(***************************************************************************)
\* a caller asks for the plan of (model, policy)
Plan(model, policy) ==
    /\ plan' = [model |-> model, policy |-> policy, hf_available |-> _is_hf_available,
                result |-> get_ordered_deployments(model, policy)]
    /\ UNCHANGED <<moduleVars, catalog, hf_until, now, requestVars, appVars>>

mark_hf_credits_exhausted(duration_seconds) ==
    /\ hf_until' = now + duration_seconds
    /\ UNCHANGED <<moduleVars, catalog, now, plan, requestVars, appVars>>

\* the clock advances
Tick ==
    /\ now < MaxTime
    /\ now' = now + 1
    /\ UNCHANGED <<moduleVars, catalog, hf_until, plan, requestVars, appVars>>

\* RainyModelRouter(model_list): the state after construction
RouterInit ==
    /\ \E model_list \in ModelLists : catalog = BuildCatalog(model_list)
    /\ hf_until = 0
    /\ now = 1
    /\ plan = NoPlan

\* analytics.py line 351, collector = MetricsCollector(): the default capacities
DefaultCaps == [records |-> 50000, logs |-> 10000]
Threads == {"t1", "t2"}
IdleThread == [pc |-> "idle", op |-> "", arg |-> <<>>, snap |-> <<>>]
NoResult == [thread |-> "", op |-> "", arg |-> 0, value |-> [rows |-> <<>>]]

\* MetricsCollector.__init__ (the record deque is initialised with the request state)
CollectorInit(max_records, max_logs) ==
    /\ logs = <<>>
    /\ caps = [records |-> max_records, logs |-> max_logs]
    /\ lock = "None"
    /\ threads = [t \in Threads |-> IdleThread]
    /\ returned = NoResult

\* main.py and sso_auth.py as imported: no expansion under way, no token verified
NoExpand == [pc |-> "idle", input |-> <<>>, obj |-> <<>>, iterations |-> 0]
Coroutines == {"c1", "c2"}
NoReply == [raised |-> FALSE, status |-> 0, payload |-> <<>>]
IdleCoroutine == [pc |-> "idle", token |-> "", reply |-> NoReply]
NoReturn == [token |-> "", value |-> [null |-> TRUE], cached |-> FALSE, at |-> 0]

\* sso_auth.py lines 33-34 as imported: an empty cache, no call under way
SsoInit ==
    /\ _TOKEN_CACHE = <<>>
    /\ sso = [c \in Coroutines |-> IdleCoroutine]
    /\ sso_history = [t \in {"t1", "t2"} |-> [accepted_at |-> 0, stored_at |-> 0]]
    /\ sso_ret = NoReturn

ModuleInit ==
    /\ expand = NoExpand
    /\ environ = <<>>
    /\ SsoInit

\* no request has arrived yet; the record store is empty
RequestInit ==
    /\ pc = "idle"
    /\ req = NoReq
    /\ deployments = <<>>
    /\ idx = 0
    /\ last_error = "None"
    /\ route_info = UnknownRoute
    /\ calls = <<>>
    /\ resp = NoResp
    /\ gen = NoGen
    /\ frames = <<>>
    /\ audit = <<>>
    /\ records = <<>>
    /\ served = 0

\* the application around the router: started, no master key, nobody admitted yet
AppStarted ==
    /\ master_key = <<>>
    /\ _router = TRUE
    /\ _rm_router = TRUE
    /\ rate_limits = <<>>
    /\ CollectorInit(DefaultCaps.records, DefaultCaps.logs)

Init == RouterInit /\ RequestInit /\ ModuleInit /\ AppStarted

Next ==
    \/ \E model \in PlanModels, policy \in PlanPolicies : Plan(model, policy)
    \/ \E d \in 1..MaxDuration : mark_hf_credits_exhausted(d)
    \/ Tick

Spec == Init /\ [][Next]_vars

(***************************************************************************)
(* main.py: chat_completions, the fallback loop (lines 310-426).           *)
(*                                                                         *)
(* LoopSpec runs the loop on the plan that                                 *)
(* get_ordered_deployments(model, policy) returns for the request.  (The   *)
(* call as main.py writes it passes provider_override as well; that call   *)
(* is the subject of HandlerSpec below.)                                   *)
(***************************************************************************)
Messages == <<[role |-> "user", content |-> "hi"]>>

\* the parsed JSON bodies of the requests
ReqBodies ==
    {[model |-> AliasAuto, messages |-> Messages, stream |-> TRUE],
     [model |-> AliasChat, messages |-> Messages, stream |-> FALSE],
     [model |-> <<"gpt-4">>, messages |-> Messages],
     [model |-> <<"rainymodel/", "gpt-4">>, messages |-> Messages],
     [model |-> <<"rainymodel/", "openrouter/", "gpt-4">>, messages |-> Messages],
     [messages |-> Messages, stream |-> FALSE]}

ReqPolicies == {"auto", "premium"}

\* the exceptions litellm.acompletion raises, by type name
CallErrors == {"RateLimitError", "Timeout"}
\* the exception an upstream stream raises while it is iterated
StreamErrors == {"APIConnectionError"}
\* the chunks an upstream stream yields: objects with model_dump(), or dict-likes
Chunks ==
    {[has_model_dump |-> TRUE, fields |-> [delta |-> "he"]],
     [has_model_dump |-> FALSE, fields |-> [delta |-> "llo"]]}

\* model = body.get("model", "rainymodel/auto"); coerced unless it starts with rainymodel/
RequestModel(body) ==
    LET model == Get(body, "model", AliasAuto)
    IN  IF ~StartsWith(model, <<"rainymodel/">>) THEN AliasAuto ELSE model

\* is_stream = body.get("stream", False)
IsStream(body) == Get(body, "stream", FALSE)

\* a passthrough value of the body is boxed, [v |-> x]; JSON null and an absent key
\* both read as None
Null == [null |-> TRUE]

PassthroughKeys ==
    <<"temperature", "max_tokens", "top_p", "frequency_penalty", "presence_penalty",
      "stop", "n", "tools", "tool_choice", "response_format", "seed">>

\* a CopyKeys that copies every key the body has, null-valued ones included
RECURSIVE CopyKeys_NullOverwrites(_, _, _)
CopyKeys_NullOverwrites(params, body, keys) ==
    IF keys = <<>> THEN params
    ELSE LET key == Head(keys)
             p2 == IF key \in DOMAIN body
                   THEN [k \in (DOMAIN params) \cup {key} |->
                            IF k = key THEN body[key] ELSE params[k]]
                   ELSE params
         IN  CopyKeys_NullOverwrites(p2, body, Tail(keys))

\* for key in (...): val = body.get(key); if val is not None: params[key] = val
RECURSIVE CopyKeys(_, _, _)
CopyKeys(params, body, keys) ==
    IF keys = <<>> THEN params
    ELSE LET key == Head(keys)
             val == Get(body, key, Null)
             p2 == IF val # Null
                   THEN [k \in (DOMAIN params) \cup {key} |->
                            IF k = key THEN val ELSE params[k]]
                   ELSE params
         IN  CopyKeys(p2, body, Tail(keys))

\* the parameter bag of one upstream call
BuildParams(dep, body, is_stream) ==
    LET p0 == dep.litellm_params
        p1 == [k \in (DOMAIN p0) \cup {"messages"} |->
                  IF k = "messages" THEN Get(body, "messages", <<>>) ELSE p0[k]]
        p2 == IF is_stream
              THEN [k \in (DOMAIN p1) \cup {"stream"} |->
                       IF k = "stream" THEN TRUE ELSE p1[k]]
              ELSE p1
    IN  CopyKeys(p2, body, PassthroughKeys)

\* a loop that writes into the deployment's own dict: params = dep["litellm_params"]
ParamsAfterCall_NoCopy(dep, bag) == bag

\* params = dep["litellm_params"].copy(): the loop writes messages, stream and the
\* passthrough keys into the copy; the deployment's own dict is left as it was
ParamsAfterCall(dep, bag) == dep.litellm_params

\* the catalog after one loop iteration: `dep` is the catalog's own object, the first
\* entry of the alias equal to it
CatalogAfterCall(model, dep, bag) ==
    LET entries == catalog[model]
        k == CHOOSE i \in 1..Len(entries) :
                 entries[i] = dep /\ \A j \in 1..(i - 1) : entries[j] # dep
    IN  [catalog EXCEPT ![model] =
            [entries EXCEPT ![k] =
                [dep EXCEPT !.litellm_params = ParamsAfterCall(dep, bag)]]]

\* a loop that tries the deployment it just tried again
LoopAdvance_Retry(i) == i

\* `for dep in deployments`: the iteration moves to the next deployment
LoopAdvance(i) == i + 1

\* route_info read one iteration late: the headers name the deployment tried before
LoopRouteInfo_Stale(deps, i) == IF i > 1 THEN deps[i - 1].route_info ELSE UnknownRoute

\* route_info = dep["route_info"], first statement of the loop body
LoopRouteInfo(deps, i) == deps[i].route_info

\* a handler that keeps the first error of the request
OnCallError_KeepFirst(prev, e) == IF prev = "None" THEN e ELSE prev

\* except Exception as e: last_error = e
OnCallError(prev, e) == e

\* str(int(elapsed * 1000))
LatencyMs(start_time) == (now - start_time) * 1000

\* the headers of a response that an upstream call produced
SuccessHeaders(ri, err, start_time) ==
    LET base == [h \in {"x-rainymodel-route", "x-rainymodel-upstream",
                        "x-rainymodel-model", "x-rainymodel-latency-ms"} |->
                    CASE h = "x-rainymodel-route" -> ri.route
                      [] h = "x-rainymodel-upstream" -> ri.upstream
                      [] h = "x-rainymodel-model" -> ri.model
                      [] OTHER -> LatencyMs(start_time)]
    IN  IF err # "None"
        THEN [h \in (DOMAIN base) \cup {"x-rainymodel-fallback-reason"} |->
                 IF h = "x-rainymodel-fallback-reason" THEN err ELSE base[h]]
        ELSE base

\* the headers and the body of the final 502
FailureHeaders(model, start_time) ==
    [h \in {"x-rainymodel-route", "x-rainymodel-upstream",
            "x-rainymodel-model", "x-rainymodel-latency-ms"} |->
        CASE h = "x-rainymodel-route" -> "error"
          [] h = "x-rainymodel-upstream" -> "none"
          [] h = "x-rainymodel-model" -> model
          [] OTHER -> LatencyMs(start_time)]

FailureBody(model, err) ==
    [error |-> [message |-> IF err # "None"
                            THEN <<"All upstreams failed for ">> \o model \o <<": ", err>>
                            ELSE <<"No deployments found for ">> \o model,
                type |-> "upstream_error"]]

\* lines 310-335: the body is parsed, the model coerced, the plan fetched
ReceiveRequest(body, policy) ==
    /\ pc \in {"idle", "done"}
    /\ LET model == RequestModel(body)
           body2 == [k \in (DOMAIN body) \cup {"model"} |->
                        IF k = "model" THEN model ELSE body[k]]
       IN  /\ req' = [body |-> body2, policy |-> policy, start_time |-> now]
           /\ deployments' = get_ordered_deployments(model, policy)
    /\ route_info' = UnknownRoute
    /\ last_error' = "None"
    /\ idx' = 0
    /\ calls' = <<>>
    /\ resp' = NoResp
    /\ gen' = NoGen
    /\ frames' = <<>>
    /\ audit' = <<"chat_completion_request">>
    /\ served' = served + 1
    /\ pc' = "loop"
    /\ UNCHANGED <<moduleVars, routerVars, appVars, records>>

LoopEnter(body, policy) ==
    /\ served < MaxRequests
    /\ ReceiveRequest(body, policy)

\* one iteration of the loop whose litellm.acompletion call raises
AttemptRaises(e) ==
    /\ pc = "loop"
    /\ idx < Len(deployments)
    /\ LET i == idx + 1
           dep == deployments[i]
           params == BuildParams(dep, req.body, IsStream(req.body))
       IN  /\ route_info' = LoopRouteInfo(deployments, i)
           /\ calls' = Append(calls, [index |-> i, dep |-> dep, outcome |-> e,
                                      params |-> params])
           /\ catalog' = CatalogAfterCall(req.body.model, dep, params)
    /\ last_error' = OnCallError(last_error, e)
    /\ idx' = LoopAdvance(idx)
    /\ UNCHANGED <<moduleVars, hf_until, now, plan, appVars, pc, req, deployments, resp, gen, frames,
                   audit, records, served>>

\* one iteration of the loop whose litellm.acompletion call returns
AttemptReturns ==
    /\ pc = "loop"
    /\ idx < Len(deployments)
    /\ LET i == idx + 1
           dep == deployments[i]
           ri == LoopRouteInfo(deployments, i)
           headers == SuccessHeaders(ri, last_error, req.start_time)
           params == BuildParams(dep, req.body, IsStream(req.body))
       IN  /\ route_info' = ri
           /\ calls' = Append(calls, [index |-> i, dep |-> dep, outcome |-> "ok",
                                      params |-> params])
           /\ catalog' = CatalogAfterCall(req.body.model, dep, params)
           /\ audit' = Append(audit, "chat_completion_success")
           /\ IF IsStream(req.body)
              THEN /\ resp' = [kind |-> "stream", status |-> 200, headers |-> headers,
                               body |-> <<>>, from |-> i]
                   /\ gen' = [pc |-> "iter", received |-> <<>>, error |-> "None"]
                   /\ pc' = "streaming"
              ELSE /\ resp' = [kind |-> "json", status |-> 200, headers |-> headers,
                               body |-> [id |-> i], from |-> i]
                   /\ gen' = gen
                   /\ pc' = "done"
    /\ idx' = LoopAdvance(idx)
    /\ UNCHANGED <<moduleVars, hf_until, now, plan, appVars, req, deployments, last_error, frames,
                   records, served>>

\* the loop is exhausted (or the plan was empty): the final 502
LoopExhausted ==
    /\ pc = "loop"
    /\ idx >= Len(deployments)
    /\ audit' = Append(audit, "chat_completion_failure")
    /\ resp' = [kind |-> "json", status |-> 502,
                headers |-> FailureHeaders(req.body.model, req.start_time),
                body |-> FailureBody(req.body.model, last_error), from |-> 0]
    /\ pc' = "done"
    /\ UNCHANGED <<moduleVars, routerVars, appVars, req, deployments, idx, last_error, route_info, calls,
                   gen, frames, records, served>>

(***************************************************************************)
(* main.py: _stream_chunks, the SSE generator of a streaming response.     *)
(***************************************************************************)
\* chunk.model_dump() if the chunk has it, else dict(chunk)
ChunkData(chunk) == chunk.fields

\* json.dumps of a one-key dict of text
JsonDumps(data) ==
    LET key == CHOOSE k \in DOMAIN data : TRUE
    IN  <<"{", "\"" \o key \o "\"", ": ", "\"" \o data[key] \o "\"", "}">>

\* f"data: {json.dumps(data)}\n\n"
DataFrame(json) == <<"data: ">> \o json \o <<"\n\n">>

DoneFrame == <<"data: ", "[DONE]", "\n\n">>

\* the frame of the except branch
ErrorFrame(upstream, e) ==
    DataFrame(<<"{", "\"error\"", ": ", "{", "\"message\"", ": ",
                "\"Stream interrupted from " \o upstream \o ": " \o e \o "\"", ", ",
                "\"type\"", ": ", "\"stream_error\"", "}", "}">>)

\* an except branch that swallows the error
ErrorFrames_Silent(upstream, e) == <<>>

\* what the except branch yields
ErrorFrames(upstream, e) == <<ErrorFrame(upstream, e)>>

\* a generator that ends without the terminator
TerminatorFrames_Missing == <<>>

\* what the generator yields after the try statement
TerminatorFrames == <<DoneFrame>>

\* async for chunk in response: the upstream yields a chunk; its frame is yielded
GenChunk(chunk) ==
    /\ pc = "streaming"
    /\ gen.pc = "iter"
    /\ Len(gen.received) < MaxChunks
    /\ gen' = [gen EXCEPT !.received = Append(@, chunk)]
    /\ frames' = Append(frames, DataFrame(JsonDumps(ChunkData(chunk))))
    /\ UNCHANGED <<moduleVars, routerVars, appVars, pc, req, deployments, idx, last_error, route_info,
                   calls, resp, audit, records, served>>

\* the upstream sequence ends: the loop is left, the terminator is yielded
GenUpstreamEnds ==
    /\ pc = "streaming"
    /\ gen.pc = "iter"
    /\ gen' = [gen EXCEPT !.pc = "done"]
    /\ frames' = frames \o TerminatorFrames
    /\ pc' = "done"
    /\ UNCHANGED <<moduleVars, routerVars, appVars, req, deployments, idx, last_error, route_info,
                   calls, resp, audit, records, served>>

\* the upstream raises while it is iterated: the error frame is yielded
GenUpstreamRaises(e) ==
    /\ pc = "streaming"
    /\ gen.pc = "iter"
    /\ gen' = [gen EXCEPT !.pc = "after_error", !.error = e]
    /\ frames' = frames \o ErrorFrames(route_info.upstream, e)
    /\ UNCHANGED <<moduleVars, routerVars, appVars, pc, req, deployments, idx, last_error, route_info,
                   calls, resp, audit, records, served>>

\* resumed after the error frame: the terminator is yielded
GenTerminator ==
    /\ pc = "streaming"
    /\ gen.pc = "after_error"
    /\ gen' = [gen EXCEPT !.pc = "done"]
    /\ frames' = frames \o TerminatorFrames
    /\ pc' = "done"
    /\ UNCHANGED <<moduleVars, routerVars, appVars, req, deployments, idx, last_error, route_info,
                   calls, resp, audit, records, served>>

\* the consumer goes away: GeneratorExit / CancelledError is raised at the point the
\* generator is suspended at; `except Exception` does not catch it
GenClose ==
    /\ pc = "streaming"
    /\ gen.pc \in {"iter", "after_error"}
    /\ gen' = [gen EXCEPT !.pc = "closed"]
    /\ pc' = "done"
    /\ UNCHANGED <<moduleVars, routerVars, appVars, req, deployments, idx, last_error, route_info,
                   calls, resp, frames, audit, records, served>>

LoopNext ==
    \/ \E body \in ReqBodies, policy \in ReqPolicies : LoopEnter(body, policy)
    \/ \E e \in CallErrors : AttemptRaises(e)
    \/ AttemptReturns
    \/ LoopExhausted
    \/ \E chunk \in Chunks : GenChunk(chunk)
    \/ GenUpstreamEnds
    \/ \E e \in StreamErrors : GenUpstreamRaises(e)
    \/ GenTerminator
    \/ GenClose

\* the router is constructed (here from a model_list of one alias), no request yet
LoopInit ==
    /\ \E model_list \in LoopModelLists : catalog = BuildCatalog(model_list)
    /\ hf_until = 0
    /\ now = 1
    /\ plan = NoPlan
    /\ RequestInit /\ ModuleInit
    /\ AppStarted

LoopSpec == LoopInit /\ [][LoopNext]_vars

(***************************************************************************)
(* main.py: the parameter bag of the upstream calls (lines 337-361), over  *)
(* requests served one after another on one router.                        *)
(***************************************************************************)
\* a deployment whose litellm_params carry a sampling parameter of their own
EntryTuned(name) ==
    [model_name |-> name,
     litellm_params |-> [model |-> <<"openai/", "mistral">>,
                         api_base |-> <<"http://", "164.92.147.36:11434", "/v1">>,
                         temperature |-> [v |-> "0.2"]],
     model_info |-> [description |-> <<"Internal", " ", "ollama">>]]

BagModelLists ==
    {<<EntryTuned(AliasAuto)>>,
     <<EntryPremium(AliasAuto), EntryTuned(AliasAuto)>>,
     <<EntryHF(AliasAuto), EntryTuned(AliasAuto)>>}

OtherMessages == <<[role |-> "user", content |-> "bye"]>>

\* bodies with passthrough keys (set, null), keys outside the closed set, no messages
BagBodies ==
    {[model |-> AliasAuto, messages |-> Messages,
      temperature |-> [v |-> "0.7"], seed |-> [v |-> "42"], user |-> [v |-> "u1"]],
     [model |-> AliasAuto, messages |-> OtherMessages, stream |-> TRUE,
      temperature |-> Null, max_tokens |-> Null, logit_bias |-> [v |-> "b"]],
     [model |-> AliasAuto, messages |-> OtherMessages],
     [stop |-> [v |-> "END"], stream |-> FALSE]}

BagErrors == {"Timeout"}

BagEnter(body, policy) ==
    /\ served < MaxBagRequests
    /\ ReceiveRequest(body, policy)

BagNext ==
    \/ \E body \in BagBodies : BagEnter(body, "auto")
    \/ \E e \in BagErrors : AttemptRaises(e)
    \/ AttemptReturns
    \/ LoopExhausted
    \/ GenUpstreamEnds
    \/ GenClose
    \/ Plan(AliasAuto, "auto")
    \/ \E d \in 1..MaxDuration : mark_hf_credits_exhausted(d)

BagInit ==
    /\ \E model_list \in BagModelLists : catalog = BuildCatalog(model_list)
    /\ hf_until = 0
    /\ now = 1
    /\ plan = NoPlan
    /\ RequestInit /\ ModuleInit
    /\ AppStarted

BagSpec == BagInit /\ [][BagNext]_vars

(***************************************************************************)
(* main.py: the application as written: lifespan, auth, rate limiting and  *)
(* chat_completions from its first line to the call that fetches the plan. *)
(***************************************************************************)
RATE_LIMIT_WINDOW == 60
RATE_LIMIT_MAX == 60

\* Authorization header values ("" when the header is absent)
AuthHeaders == {<<>>, <<"Bearer ", "k1">>, <<"Bearer ", "k2">>, <<"Basic ", "k1">>}

\* request bodies as sent: not JSON, a JSON array, or a JSON object; model_type is
\* the JSON type of the object's "model" member
RawBodies ==
    {[json |-> "invalid", model_type |-> "absent", body |-> <<>>],
     [json |-> "array", model_type |-> "absent", body |-> <<>>],
     [json |-> "object", model_type |-> "int", body |-> [messages |-> Messages]]}
    \cup {[json |-> "object",
           model_type |-> IF "model" \in DOMAIN b THEN "str" ELSE "absent",
           body |-> b] : b \in ReqBodies}

\* X-RainyModel-Provider header values ("None" when absent)
ProviderHeaders == {"None", "openrouter"}

\* the configurations _load_config() reads
HandlerConfigs ==
    {<<>>, <<EntryHF(AliasAuto)>>, <<EntryHF(AliasAuto), EntryPremium(AliasAuto)>>}

_check_auth(auth) ==
    IF master_key = <<>> THEN TRUE
    ELSE IF StartsWith(auth, <<"Bearer ">>) THEN Tail(auth) = master_key
    ELSE FALSE

\* auth_header[7:] if auth_header.startswith("Bearer ") else "anonymous"
ApiKey(auth) == IF StartsWith(auth, <<"Bearer ">>) THEN Tail(auth) ELSE <<"anonymous">>

\* a limiter that keeps a timestamp of age RATE_LIMIT_WINDOW
RECURSIVE InWindow_Inclusive(_)
InWindow_Inclusive(ts) ==
    IF ts = <<>> THEN <<>>
    ELSE IF now - Head(ts) <= RATE_LIMIT_WINDOW
         THEN <<Head(ts)>> \o InWindow_Inclusive(Tail(ts))
    ELSE InWindow_Inclusive(Tail(ts))

\* [t for t in _rate_limits[api_key] if now - t < RATE_LIMIT_WINDOW]
RECURSIVE InWindow(_)
InWindow(ts) ==
    IF ts = <<>> THEN <<>>
    ELSE IF now - Head(ts) < RATE_LIMIT_WINDOW THEN <<Head(ts)>> \o InWindow(Tail(ts))
    ELSE InWindow(Tail(ts))

\* a limiter that appends the timestamp before it compares
_check_rate_limit_AppendFirst(api_key) ==
    LET kept == Append(InWindow(Get(rate_limits, api_key, <<>>)), now)
    IN  IF Len(kept) > RATE_LIMIT_MAX THEN <<FALSE, kept>>
        ELSE <<TRUE, kept>>

\* _check_rate_limit: [admitted, the window of api_key afterwards]
_check_rate_limit(api_key) ==
    LET kept == InWindow(Get(rate_limits, api_key, <<>>))
    IN  IF Len(kept) >= RATE_LIMIT_MAX THEN <<FALSE, kept>>
        ELSE <<TRUE, Append(kept, now)>>

\* the parameter names get_ordered_deployments declares (besides self)
RouterParams == {"model", "policy"}
\* the arguments of the call in chat_completions: two positional, one by keyword
PlanCallPositional == 2
PlanCallKeywords == {"provider_override"}
\* Python binds the call only if every keyword names a declared parameter
PlanCallBinds ==
    /\ PlanCallPositional <= Cardinality(RouterParams)
    /\ PlanCallKeywords \subseteq RouterParams

Answer(status, body) ==
    [kind |-> "json", status |-> status, headers |-> <<>>, body |-> body, from |-> 0]
\* an exception leaves the handler: the server answers for it, the handler does not
Raised(exc) ==
    [kind |-> "exception", status |-> 500, headers |-> <<>>, body |-> exc, from |-> 0]

\* lifespan, entered: both routers are built from the configuration
Startup(model_list) ==
    /\ ~_router /\ ~_rm_router
    /\ _router' = TRUE
    /\ _rm_router' = TRUE
    /\ catalog' = BuildCatalog(model_list)
    /\ hf_until' = 0
    /\ UNCHANGED <<moduleVars, now, plan, requestVars, master_key, rate_limits, collectorVars>>

\* the statements of lifespan's startup that can raise on a bad configuration:
\* _load_config() (line 106), Router(...) (110), RainyModelRouter(...) (118)
StartupStages == {"_load_config", "Router", "RainyModelRouter"}

\* lifespan, entered, and the statement `stage` raises: the assignments before it
\* have happened, the exception leaves lifespan
StartupFails(stage) ==
    /\ ~_router /\ ~_rm_router
    /\ _router' = (stage = "RainyModelRouter")
    /\ _rm_router' = FALSE
    /\ UNCHANGED <<moduleVars, catalog, hf_until, now, plan, requestVars, master_key, rate_limits,
                   collectorVars>>

\* lifespan, left
Shutdown ==
    /\ _router /\ _rm_router
    /\ pc \in {"idle", "done"}
    /\ _router' = FALSE
    /\ _rm_router' = FALSE
    /\ catalog' = <<>>
    /\ hf_until' = 0
    /\ UNCHANGED <<moduleVars, now, plan, requestVars, master_key, rate_limits, collectorVars>>

\* POST /v1/chat/completions, lines 289-334 as written
HandleChat(auth, raw, policy, provider_override) ==
    /\ pc \in {"idle", "done"}
    /\ served' = served + 1
    /\ LET api_key == ApiKey(auth)
           rl == _check_rate_limit(api_key)
           limits2 == [k \in (DOMAIN rate_limits) \cup {api_key} |->
                          IF k = api_key THEN rl[2] ELSE rate_limits[k]]
           model == RequestModel(raw.body)
           body2 == [k \in (DOMAIN raw.body) \cup {"model"} |->
                        IF k = "model" THEN model ELSE raw.body[k]]
           Finish(r, lim, rq, log) ==
               /\ resp' = r
               /\ rate_limits' = lim
               /\ req' = rq
               /\ audit' = log
               /\ pc' = "done"
               /\ deployments' = <<>>
               /\ idx' = 0
               /\ last_error' = "None"
               /\ calls' = <<>>
               /\ gen' = NoGen
               /\ frames' = <<>>
       IN  IF ~_check_auth(auth)
           THEN /\ Finish(Answer(401, [error |-> "Unauthorized"]), rate_limits, NoReq, <<>>)
                /\ route_info' = UnknownRoute
           ELSE IF ~rl[1]
           THEN /\ Finish(Answer(429, [error |-> [type |-> "rate_limit_error"]]), limits2,
                          NoReq, <<"rate_limited">>)
                /\ route_info' = UnknownRoute
           ELSE IF ~_router \/ ~_rm_router
           THEN /\ Finish(Answer(503, [error |-> "Service not ready"]), limits2, NoReq, <<>>)
                /\ route_info' = UnknownRoute
           ELSE IF raw.json = "invalid"
           THEN /\ Finish(Raised("JSONDecodeError"), limits2, NoReq, <<>>)
                /\ route_info' = UnknownRoute
           ELSE IF raw.json # "object" \/ raw.model_type \notin {"str", "absent"}
           THEN /\ Finish(Raised("AttributeError"), limits2, NoReq, <<>>)
                /\ route_info' = UnknownRoute
           ELSE IF ~PlanCallBinds
           THEN /\ Finish(Raised("TypeError"), limits2,
                          [body |-> body2, policy |-> policy, start_time |-> now],
                          <<"chat_completion_request">>)
                /\ route_info' = UnknownRoute
           ELSE /\ resp' = NoResp
                /\ rate_limits' = limits2
                /\ req' = [body |-> body2, policy |-> policy, start_time |-> now]
                /\ audit' = <<"chat_completion_request">>
                /\ pc' = "loop"
                /\ deployments' = get_ordered_deployments(model, policy)
                /\ idx' = 0
                /\ last_error' = "None"
                /\ calls' = <<>>
                /\ gen' = NoGen
                /\ frames' = <<>>
                /\ route_info' = UnknownRoute
    /\ UNCHANGED <<moduleVars, routerVars, records, master_key, _router, _rm_router, collectorVars>>

ChatCompletions(auth, raw, policy, provider_override) ==
    /\ served < MaxRequests
    /\ HandleChat(auth, raw, policy, provider_override)

HandlerTick ==
    /\ now < MaxTime
    /\ now' = now + 1
    /\ UNCHANGED <<moduleVars, catalog, hf_until, plan, requestVars, appVars>>

\* the module is imported: no routers yet, an empty rate-limit table
HandlerInit ==
    /\ catalog = <<>>
    /\ hf_until = 0
    /\ now = 1
    /\ plan = NoPlan
    /\ RequestInit /\ ModuleInit
    /\ master_key \in {<<>>, <<"k1">>}
    /\ _router = FALSE
    /\ _rm_router = FALSE
    /\ rate_limits = <<>>
    /\ CollectorInit(DefaultCaps.records, DefaultCaps.logs)

HandlerNext ==
    \/ \E model_list \in HandlerConfigs : Startup(model_list)
    \/ \E stage \in StartupStages : StartupFails(stage)
    \/ Shutdown
    \/ \E auth \in AuthHeaders, raw \in RawBodies, policy \in ReqPolicies,
          provider_override \in ProviderHeaders :
            ChatCompletions(auth, raw, policy, provider_override)
    \/ HandlerTick

HandlerSpec == HandlerInit /\ [][HandlerNext]_vars

(***************************************************************************)
(* main.py: the rate limiter under load.  One caller key sends up to       *)
(* MaxLimiterRequests requests; another key sends a request first of all   *)
(* or right after a rejection, until it has been admitted once.  Requests  *)
(* arrive at the instants where a timestamp of the first instant is 59 and *)
(* 60 seconds old.  Every request runs the handler as written.             *)
(***************************************************************************)
LimiterAuth == {<<"Bearer ", "k1">>, <<"Bearer ", "k2">>}
\* the instants at which requests arrive
LimiterInstants == {1, RATE_LIMIT_WINDOW, RATE_LIMIT_WINDOW + 1}
LimiterBody == [json |-> "object", model_type |-> "str",
                body |-> [model |-> AliasAuto, messages |-> Messages]]

LimiterRequest(auth) ==
    /\ served < MaxLimiterRequests
    /\ \/ auth = <<"Bearer ", "k1">>
       \/ /\ Get(rate_limits, ApiKey(auth), <<>>) = <<>>
          /\ served = 0 \/ resp.status = 429
    /\ HandleChat(auth, LimiterBody, "auto", "None")

\* time.time() moves on to a later instant
LimiterTick ==
    /\ \E t \in LimiterInstants : t > now /\ now' = t
    /\ UNCHANGED <<moduleVars, catalog, hf_until, plan, requestVars, appVars>>

\* the application has started; the rate-limit table is empty
LimiterInit ==
    /\ catalog = BuildCatalog(<<EntryHF(AliasAuto)>>)
    /\ hf_until = 0
    /\ now = 1
    /\ plan = NoPlan
    /\ RequestInit /\ ModuleInit
    /\ master_key \in {<<>>, <<"k1">>}
    /\ _router = TRUE
    /\ _rm_router = TRUE
    /\ rate_limits = <<>>
    /\ CollectorInit(DefaultCaps.records, DefaultCaps.logs)

LimiterNext ==
    \/ \E auth \in LimiterAuth : LimiterRequest(auth)
    \/ LimiterTick

LimiterSpec == LimiterInit /\ [][LimiterNext]_vars

(***************************************************************************)
(* analytics.py: RequestRecord, the bounded stores and the aggregations.   *)
(* None is "None".  The float-valued fields of the aggregations (the       *)
(* percentages and the costs) and uptime_s are left out; every other field *)
(* is computed as the code computes it.                                    *)
(***************************************************************************)
\* analytics.py lines 17-35
RequestRecord(timestamp, upstream, route, policy, latency_ms, success, error_type, fallback_from) ==
    [timestamp |-> timestamp, model_alias |-> AliasAuto, upstream |-> upstream,
     route |-> route, actual_model |-> "m", policy |-> policy,
     latency_ms |-> latency_ms, success |-> success,
     status_code |-> IF success THEN 200 ELSE 502, is_stream |-> FALSE,
     input_tokens |-> 1, output_tokens |-> 2, error_type |-> error_type,
     error_message |-> "None", fallback_from |-> fallback_from]

\* a bounded store that drops the item it is given when it is full
deque_append_DropNewest(store, x, maxlen) ==
    IF Len(store) >= maxlen THEN store ELSE Append(store, x)

\* deque(maxlen=n).append(x): a full deque drops its leftmost item
deque_append(store, x, maxlen) ==
    IF maxlen = 0 THEN <<>>
    ELSE IF Len(store) >= maxlen THEN Append(Tail(store), x)
    ELSE Append(store, x)

\* min(a, b)
Min2(a, b) == IF a < b THEN a ELSE b

RECURSIVE SumSeq(_)
SumSeq(s) == IF s = <<>> THEN 0 ELSE Head(s) + SumSeq(Tail(s))

\* [r.field for r in recs]
Pluck(recs, field) == [i \in 1..Len(recs) |-> recs[i][field]]

\* sorted(ints)
RECURSIVE InsertSorted(_, _)
InsertSorted(x, s) ==
    IF s = <<>> THEN <<x>>
    ELSE IF x < Head(s) THEN <<x>> \o s
    ELSE <<Head(s)>> \o InsertSorted(x, Tail(s))
RECURSIVE Sorted(_)
Sorted(s) == IF s = <<>> THEN <<>> ELSE InsertSorted(Head(s), Sorted(Tail(s)))

\* a percentile that reads the sorted list from its top
_pctl_FromTop(sorted_vals, pct) ==
    IF sorted_vals = <<>> THEN 0
    ELSE sorted_vals[Len(sorted_vals) - Min2((Len(sorted_vals) * pct) \div 100,
                                                 Len(sorted_vals) - 1)]

\* _pctl(sorted_vals, p) with p = pct / 100: index min(int(len * p), len - 1), 0-based
_pctl(sorted_vals, pct) ==
    IF sorted_vals = <<>> THEN 0
    ELSE sorted_vals[Min2((Len(sorted_vals) * pct) \div 100,
                             Len(sorted_vals) - 1) + 1]

\* int(statistics.mean(vals)) of non-negative integers
IntMean(vals) == SumSeq(vals) \div Len(vals)
\* int(statistics.median(sorted vals))
IntMedian(vals) ==
    LET n == Len(vals)
    IN  IF n % 2 = 1 THEN vals[(n + 1) \div 2]
        ELSE (vals[n \div 2] + vals[n \div 2 + 1]) \div 2

\* a success test that reads error_type instead of success
Successful_ByErrorType(recs) == SelectSeq(recs, LAMBDA r : r.error_type = "None")
\* ok = [r for r in recs if r.success]
Successful(recs) == SelectSeq(recs, LAMBDA r : r.success)

\* get_overview, computed on the snapshot recs at instant t
get_overview(recs, t) ==
    IF recs = <<>>
    THEN [total |-> 0, ok |-> 0, err |-> 0, avg_ms |-> 0, med_ms |-> 0, p95_ms |-> 0,
          p99_ms |-> 0, min_ms |-> 0, max_ms |-> 0, rpm |-> 0, input_tokens |-> 0,
          output_tokens |-> 0, total_tokens |-> 0, providers |-> 0]
    ELSE LET ok == Successful(recs)
             lats == Sorted(Pluck(recs, "latency_ms"))
             recent == Len(SelectSeq(recs, LAMBDA r : t - r.timestamp < 60))
             inp == SumSeq(Pluck(recs, "input_tokens"))
             out == SumSeq(Pluck(recs, "output_tokens"))
         IN  [total |-> Len(recs), ok |-> Len(ok), err |-> Len(recs) - Len(ok),
              avg_ms |-> IntMean(lats), med_ms |-> IntMedian(lats),
              p95_ms |-> _pctl(lats, 95), p99_ms |-> _pctl(lats, 99),
              min_ms |-> lats[1], max_ms |-> lats[Len(lats)], rpm |-> recent,
              input_tokens |-> inp, output_tokens |-> out, total_tokens |-> inp + out,
              providers |-> Cardinality({recs[i].upstream : i \in 1..Len(recs)})]

\* get_system_log(limit, level): logs[-limit:] of the entries of that level
\* (level "None": every entry); s[-n:] is the whole list when n = 0
LastN(s, n) ==
    IF n = 0 \/ n >= Len(s) THEN s ELSE SubSeq(s, Len(s) - n + 1, Len(s))
\* Python: str.upper() of a level name
Upper(level) ==
    CASE level = "error" -> "ERROR"
      [] level = "Error" -> "ERROR"
      [] level = "info" -> "INFO"
      [] OTHER -> level

\* lines 342-347: the stored level is compared with level.upper()
get_system_log(entries, limit, level) ==
    LastN(IF level = "None" THEN entries
          ELSE SelectSeq(entries, LAMBDA l : l.level = Upper(level)),
          limit)

(***************************************************************************)
(* analytics.py: the grouped aggregations and the request log.             *)
(***************************************************************************)
\* the keys of a dict filled in the order of keys, in insertion order
FirstSeen(keys) ==
    LET firsts == SelectSeq([i \in 1..Len(keys) |-> i],
                            LAMBDA i : \A j \in 1..(i - 1) : keys[j] # keys[i])
    IN  [k \in 1..Len(firsts) |-> keys[firsts[k]]]

\* the upstream labels and the aliases of the records, in the order sorted() gives strings
SortedUpstreams == <<"hf", "ollama", "openai", "openrouter">>
SortedAliases == <<AliasAuto, AliasChat>>

\* sorted(rows, key=lambda x: -x["count"]): stable, rows of equal count keep their order
RECURSIVE InsertByCount(_, _)
InsertByCount(x, s) ==
    IF s = <<>> THEN <<x>>
    ELSE IF x.count > Head(s).count THEN <<x>> \o s
    ELSE <<Head(s)>> \o InsertByCount(x, Tail(s))
RECURSIVE SortByCountDesc(_, _)
SortByCountDesc(acc, rows) ==
    IF rows = <<>> THEN acc
    ELSE SortByCountDesc(InsertByCount(Head(rows), acc), Tail(rows))


\* a histogram dict of keys, as rows in insertion order
Histogram(keys) ==
    LET ks == FirstSeen(keys)
    IN  [i \in 1..Len(ks) |-> [key |-> ks[i],
                               count |-> Len(SelectSeq(keys, LAMBDA k : k = ks[i]))]]

\* r.error_type or "Unknown"
ErrorKey(r) == IF r.error_type \in {"None", ""} THEN "Unknown" ELSE r.error_type
\* `if r.fallback_from`
HasFallback(r) == r.fallback_from \notin {"None", ""}

\* get_errors, lines 277-283
get_errors(recs) ==
    LET errs == SelectSeq(recs, LAMBDA r : ~r.success)
        rows == SortByCountDesc(<<>>, Histogram([i \in 1..Len(errs) |-> ErrorKey(errs[i])]))
    IN  [i \in 1..Len(rows) |-> [type |-> rows[i].key, count |-> rows[i].count]]

\* get_policies, lines 287-292
get_policies(recs) ==
    LET rows == SortByCountDesc(<<>>, Histogram(Pluck(recs, "policy")))
    IN  [i \in 1..Len(rows) |-> [policy |-> rows[i].key, count |-> rows[i].count]]

\* get_fallbacks, lines 296-311: chains[from][to] counted in insertion order, rows
\* listed outer key by outer key, then sorted by count
RECURSIVE Flatten(_)
Flatten(ss) == IF ss = <<>> THEN <<>> ELSE Head(ss) \o Flatten(Tail(ss))
get_fallbacks(recs) ==
    LET fb == SelectSeq(recs, HasFallback)
        froms == FirstSeen(Pluck(fb, "fallback_from"))
        RowsOf(frm) ==
            LET tos == SelectSeq(fb, LAMBDA r : r.fallback_from = frm)
                h == Histogram(Pluck(tos, "upstream"))
            IN  [i \in 1..Len(h) |-> [from |-> frm, to |-> h[i].key, count |-> h[i].count]]
        rows == Flatten([i \in 1..Len(froms) |-> RowsOf(froms[i])])
    IN  [total |-> Len(recs), fallback_count |-> Len(fb),
         chains |-> SortByCountDesc(<<>>, rows)]

\* get_providers, lines 151-178: one row per upstream, sorted by upstream
get_providers(recs) ==
    LET ups == SelectSeq(SortedUpstreams,
                         LAMBDA u : \E i \in 1..Len(recs) : recs[i].upstream = u)
        Row(up) ==
            LET rs == SelectSeq(recs, LAMBDA r : r.upstream = up)
                ok == SelectSeq(rs, LAMBDA r : r.success)
                lats == Sorted([i \in 1..Len(rs) |-> rs[i].latency_ms])
            IN  [upstream |-> up, requests |-> Len(rs), ok |-> Len(ok),
                 err |-> Len(rs) - Len(ok), avg_ms |-> IntMean(lats),
                 p95_ms |-> _pctl(lats, 95), min_ms |-> lats[1],
                 max_ms |-> lats[Len(lats)],
                 input_tokens |-> SumSeq([i \in 1..Len(rs) |-> rs[i].input_tokens]),
                 output_tokens |-> SumSeq([i \in 1..Len(rs) |-> rs[i].output_tokens])]
    IN  [i \in 1..Len(ups) |-> Row(ups[i])]

\* get_models, lines 182-199: one row per alias, sorted by alias
get_models(recs) ==
    LET ms == SelectSeq(SortedAliases,
                        LAMBDA m : \E i \in 1..Len(recs) : recs[i].model_alias = m)
        Row(m) ==
            LET rs == SelectSeq(recs, LAMBDA r : r.model_alias = m)
                lats == Sorted([i \in 1..Len(rs) |-> rs[i].latency_ms])
            IN  [model |-> m, requests |-> Len(rs), avg_ms |-> IntMean(lats)]
    IN  [i \in 1..Len(ms) |-> Row(ms[i])]

\* round(p / q, 1), in tenths: the nearest tenth of p / q (no quotient of the stores
\* modelled falls half-way between two tenths)
RoundTenths(p, q) == (20 * p + q) \div (2 * q)

\* get_financial, lines 203-242 (the token sums of the breakdown, the tier histogram and
\* saving_pct, the last in tenths of a percent)
get_financial(recs) ==
    IF recs = <<>>
    THEN [breakdown |-> <<>>, tier_dist |-> [free |-> 0, internal |-> 0, premium |-> 0],
          saving_pct |-> 0]
    ELSE LET ups == SelectSeq(SortedUpstreams,
                              LAMBDA u : \E i \in 1..Len(recs) : recs[i].upstream = u)
             Row(up) ==
                 LET rs == SelectSeq(recs, LAMBDA r : r.upstream = up)
                 IN  [upstream |-> up, requests |-> Len(rs),
                      input_tokens |-> SumSeq([i \in 1..Len(rs) |-> rs[i].input_tokens]),
                      output_tokens |-> SumSeq([i \in 1..Len(rs) |-> rs[i].output_tokens])]
             N(route) == Len(SelectSeq(recs, LAMBDA r : r.route = route))
         IN  [breakdown |-> [i \in 1..Len(ups) |-> Row(ups[i])],
              tier_dist |-> [free |-> N("free"), internal |-> N("internal"),
                             premium |-> N("premium")],
              saving_pct |-> RoundTenths((N("free") + N("internal")) * 100, Len(recs))]

\* datetime.fromtimestamp(ts, tz=utc).isoformat()
IsoFormat(ts) == <<"iso", ts>>
\* the dict get_request_log builds for a record, lines 319-335
LogRow(r) ==
    [ts |-> IsoFormat(r.timestamp), alias |-> r.model_alias, upstream |-> r.upstream,
     route |-> r.route, model |-> r.actual_model, policy |-> r.policy,
     ms |-> r.latency_ms, ok |-> r.success, code |-> r.status_code,
     stream |-> r.is_stream, in_tok |-> r.input_tokens, out_tok |-> r.output_tokens,
     err |-> r.error_type, fb |-> r.fallback_from]
\* list.reverse()
Reverse(s) == [i \in 1..Len(s) |-> s[Len(s) - i + 1]]
\* get_request_log(limit), limit >= 0: recs[-limit:], mapped, reversed
get_request_log(recs, limit) ==
    LET last == LastN(recs, limit)
    IN  Reverse([i \in 1..Len(last) |-> LogRow(last[i])])

(***************************************************************************)
(* analytics.py: MetricsCollector under threads.  record, log and the      *)
(* queries are called from several threads; `with self._lock` is entered   *)
(* in one step and its body runs, and releases the lock, in another.       *)
(***************************************************************************)
CollectorRecords ==
    {RequestRecord(1, "hf", "free", "auto", 10, TRUE, "None", "None"),
     RequestRecord(1, "openrouter", "premium", "auto", 30, FALSE, "Timeout", "hf")}
LogLevels == {"INFO", "ERROR"}
\* the dict log() appends
LogEntry(level) == [ts |-> now, level |-> level, msg |-> "m"]
SnapshotOps == {"get_overview", "get_system_log"}

\* threading.Lock: acquire blocks while another thread holds the lock
LockIsFree_Always == TRUE
LockIsFree == lock = "None"

\* thread t calls op and enters its `with self._lock:` block
Acquire(t, op, arg) ==
    /\ threads[t].pc = "idle"
    /\ LockIsFree
    /\ lock' = t
    /\ threads' = [threads EXCEPT ![t] = [pc |-> "locked", op |-> op, arg |-> arg,
                                          snap |-> <<>>]]
    /\ UNCHANGED <<moduleVars, routerVars, requestVars, master_key, _router, _rm_router, rate_limits,
                   logs, caps, returned>>

\* record(rec), lines 75-77: the append, then the lock is released
RecordBody(t) ==
    /\ threads[t].pc = "locked" /\ threads[t].op = "record"
    /\ records' = deque_append(records, threads[t].arg, caps.records)
    /\ lock' = "None"
    /\ threads' = [threads EXCEPT ![t] = IdleThread]
    /\ UNCHANGED <<moduleVars, routerVars, pc, req, deployments, idx, last_error, route_info, calls,
                   resp, gen, frames, audit, served, master_key, _router, _rm_router,
                   rate_limits, logs, caps, returned>>

\* log(level, message), lines 79-88
LogBody(t) ==
    /\ threads[t].pc = "locked" /\ threads[t].op = "log"
    /\ logs' = deque_append(logs, LogEntry(threads[t].arg), caps.logs)
    /\ lock' = "None"
    /\ threads' = [threads EXCEPT ![t] = IdleThread]
    /\ UNCHANGED <<moduleVars, routerVars, requestVars, master_key, _router, _rm_router, rate_limits,
                   caps, returned>>

\* _snap(), lines 92-94, and get_system_log, lines 343-344: the copy under the lock
SnapBody(t) ==
    /\ threads[t].pc = "locked" /\ threads[t].op \in SnapshotOps
    /\ lock' = "None"
    /\ threads' = [threads EXCEPT ![t] =
                      [@ EXCEPT !.pc = "computing",
                                !.snap = IF threads[t].op = "get_system_log"
                                         THEN logs ELSE records]]
    /\ UNCHANGED <<moduleVars, routerVars, requestVars, master_key, _router, _rm_router, rate_limits,
                   logs, caps, returned>>

\* what the code after the `with` block computes on: the local copy
AggregateSource(t) == threads[t].snap

Aggregate(op, source) ==
    IF op = "get_system_log" THEN [rows |-> get_system_log(source, 200, "None")]
    ELSE get_overview(source, now)

\* the query computes on its copy, outside the lock, and returns
Return(t) ==
    /\ threads[t].pc = "computing"
    /\ returned' = [thread |-> t, op |-> threads[t].op, arg |-> 0,
                    value |-> Aggregate(threads[t].op, AggregateSource(t))]
    /\ threads' = [threads EXCEPT ![t] = IdleThread]
    /\ UNCHANGED <<moduleVars, routerVars, requestVars, master_key, _router, _rm_router, rate_limits,
                   logs, caps, lock>>

\* a collector constructed with small capacities; nothing stored yet
CollectorThreadsInit ==
    /\ RouterInit /\ catalog = <<>>
    /\ RequestInit /\ ModuleInit
    /\ master_key = <<>> /\ _router = TRUE /\ _rm_router = TRUE /\ rate_limits = <<>>
    /\ CollectorInit(MaxRecordsCap, MaxLogsCap)

CollectorNext ==
    \/ \E t \in Threads :
          \/ \E rec \in CollectorRecords : Acquire(t, "record", rec)
          \/ \E level \in LogLevels : Acquire(t, "log", level)
          \/ \E op \in SnapshotOps : Acquire(t, op, <<>>)
          \/ RecordBody(t)
          \/ LogBody(t)
          \/ SnapBody(t)
          \/ Return(t)

CollectorSpec == CollectorThreadsInit /\ [][CollectorNext]_vars

(***************************************************************************)
(* analytics.py: the collector called from one thread.  QuerySpec inserts  *)
(* records of several kinds into a small store and runs every query;       *)
(* LatencySpec inserts up to MaxLatencyRecords records that differ in      *)
(* their latency only (in ascending order: the overview sorts them) and    *)
(* asks for the overview.                                                  *)
(***************************************************************************)
QueryRecords ==
    {RequestRecord(1, "hf", "free", "auto", 10, TRUE, "None", "None"),
     RequestRecord(1, "openrouter", "premium", "premium", 30, FALSE, "Timeout", "hf"),
     RequestRecord(1, "ollama", "internal", "auto", 20, FALSE, "RateLimitError", "hf"),
     [RequestRecord(1, "openrouter", "premium", "auto", 40, FALSE, "None", "ollama")
         EXCEPT !.model_alias = AliasChat],
     RequestRecord(1, "openai", "direct", "premium", 50, TRUE, "None", "None")}
Latencies == {0, 1, 100}
LatencyRecord(l) == RequestRecord(1, "hf", "free", "auto", l, TRUE, "None", "None")

QueryOps == {"get_overview", "get_providers", "get_models", "get_financial", "get_errors",
             "get_policies", "get_fallbacks"}

\* what the query op returns on the snapshot recs
QueryValue(op, arg, recs) ==
    CASE op = "get_overview" -> get_overview(recs, now)
      [] op = "get_providers" -> [rows |-> get_providers(recs)]
      [] op = "get_models" -> [rows |-> get_models(recs)]
      [] op = "get_financial" -> get_financial(recs)
      [] op = "get_errors" -> [rows |-> get_errors(recs)]
      [] op = "get_policies" -> [rows |-> get_policies(recs)]
      [] op = "get_fallbacks" -> get_fallbacks(recs)
      [] op = "get_request_log" -> [rows |-> get_request_log(recs, arg)]

\* record(rec) from the only thread; it returns None
RecordCall(rec) ==
    /\ records' = deque_append(records, rec, caps.records)
    /\ returned' = NoResult
    /\ UNCHANGED <<moduleVars, routerVars, pc, req, deployments, idx, last_error, route_info, calls,
                   resp, gen, frames, audit, served, master_key, _router, _rm_router,
                   rate_limits, logs, caps, lock, threads>>

\* a query from the only thread: the snapshot and the computation on it
QueryCall(op, arg) ==
    /\ returned' = [thread |-> "t1", op |-> op, arg |-> arg,
                    value |-> QueryValue(op, arg, records)]
    /\ UNCHANGED <<moduleVars, routerVars, requestVars, master_key, _router, _rm_router, rate_limits,
                   logs, caps, lock, threads>>

QueryInit ==
    /\ RouterInit /\ catalog = <<>>
    /\ RequestInit /\ ModuleInit
    /\ master_key = <<>> /\ _router = TRUE /\ _rm_router = TRUE /\ rate_limits = <<>>
    /\ CollectorInit(MaxQueryCap, DefaultCaps.logs)

QueryNext ==
    \/ \E rec \in QueryRecords : RecordCall(rec)
    \/ \E op \in QueryOps : QueryCall(op, 0)
    \/ \E limit \in 0..MaxLimit : QueryCall("get_request_log", limit)

QuerySpec == QueryInit /\ [][QueryNext]_vars

(***************************************************************************)
(* analytics.py: log and get_system_log (lines 79-88, 342-347) from one    *)
(* thread, with levels written in either letter case.                       *)
(***************************************************************************)
LoggedLevels == {"INFO", "ERROR", "error"}
LevelFilters == {"None", "INFO", "ERROR", "error"}
LogMessages == {"m1", "m2"}

\* log(level, message) from the only thread; it returns None
LogCall(level, message) ==
    /\ logs' = deque_append(logs, [LogEntry(level) EXCEPT !.msg = message], caps.logs)
    /\ returned' = NoResult
    /\ UNCHANGED <<moduleVars, routerVars, requestVars, master_key, _router, _rm_router,
                   rate_limits, caps, lock, threads>>

\* get_system_log(limit, level) from the only thread
SystemLogCall(limit, level) ==
    /\ returned' = [thread |-> "t1", op |-> "get_system_log",
                    arg |-> [limit |-> limit, level |-> level],
                    value |-> [rows |-> get_system_log(logs, limit, level)]]
    /\ UNCHANGED <<moduleVars, routerVars, requestVars, master_key, _router, _rm_router,
                   rate_limits, logs, caps, lock, threads>>

LogInit ==
    /\ RouterInit /\ catalog = <<>>
    /\ RequestInit /\ ModuleInit
    /\ master_key = <<>> /\ _router = TRUE /\ _rm_router = TRUE /\ rate_limits = <<>>
    /\ CollectorInit(DefaultCaps.records, MaxLogQueryCap)

LogNext ==
    \/ \E level \in LoggedLevels, message \in LogMessages : LogCall(level, message)
    \/ \E limit \in 0..MaxLimit, level \in LevelFilters : SystemLogCall(limit, level)

LogSpec == LogInit /\ [][LogNext]_vars

LatencyRecordCall(l) ==
    /\ Len(records) < MaxLatencyRecords
    /\ IF records = <<>> THEN TRUE ELSE records[Len(records)].latency_ms <= l
    /\ RecordCall(LatencyRecord(l))

LatencyInit ==
    /\ RouterInit /\ catalog = <<>>
    /\ RequestInit /\ ModuleInit
    /\ master_key = <<>> /\ _router = TRUE /\ _rm_router = TRUE /\ rate_limits = <<>>
    /\ CollectorInit(DefaultCaps.records, DefaultCaps.logs)

LatencyNext ==
    \/ \E l \in Latencies : LatencyRecordCall(l)
    \/ QueryCall("get_overview", 0)

LatencySpec == LatencyInit /\ [][LatencyNext]_vars

(***************************************************************************)
(* routing.py: direct provider access (DIRECT_PROVIDERS, lines 19-57;      *)
(* parse_direct_provider and build_direct_deployment, lines 93-148), and   *)
(* the constructor's classification of entries that match several of the   *)
(* classifier's rules at once.  The environment is unset, as for the       *)
(* Ollama hosts above.                                                     *)
(***************************************************************************)
DIRECT_PROVIDERS ==
    [openrouter |-> [litellm_prefix |-> "openrouter/", api_key_env |-> "OPENROUTER_API_KEY",
                     timeout |-> 120, route |-> "premium", upstream |-> "openrouter"],
     huggingface |-> [litellm_prefix |-> "huggingface/",
                      api_base |-> <<"https://router.", "huggingface", ".co/v1">>,
                      api_key_env |-> "HF_TOKEN",
                      timeout |-> 90, route |-> "free", upstream |-> "hf"],
     ollama |-> [litellm_prefix |-> "openai/", api_base_env |-> "OLLAMA_PRIMARY_URL",
                 api_base_default |-> <<"http://", "164.92.147.36:11434">>,
                 api_key_env |-> "OLLAMA_API_KEY", api_key_default |-> <<"ollama">>,
                 timeout |-> 120, route |-> "internal", upstream |-> "ollama"],
     ollamafreeapi |-> [litellm_prefix |-> "openai/", api_base_env |-> "OLLAMAFREE_API_BASE",
                        api_base_default |-> <<"https://", "ollamafreeapi", ".orcest.ai">>,
                        api_key_env |-> "OLLAMAFREE_API_KEY", api_key_default |-> <<"sk-free">>,
                        timeout |-> 120, route |-> "free", upstream |-> "ollamafreeapi"]]

\* `for provider_key in DIRECT_PROVIDERS`: the keys in the dict's order
ProviderKeys == <<"openrouter", "huggingface", "ollama", "ollamafreeapi">>

\* provider_key + "/" as one token of a model string
ProviderPrefix(provider_key) ==
    CASE provider_key = "openrouter" -> "openrouter/"
      [] provider_key = "huggingface" -> "huggingface/"
      [] provider_key = "ollama" -> "ollama/"
      [] OTHER -> "ollamafreeapi/"

\* a parser that accepts a provider prefix with nothing after it
parse_direct_provider_EmptyDownstream(model) ==
    IF ~StartsWith(model, <<"rainymodel/">>) THEN Null
    ELSE LET rest == Tail(model)
             hits == {i \in 1..Len(ProviderKeys) :
                         StartsWith(rest, <<ProviderPrefix(ProviderKeys[i])>>)}
         IN  IF hits = {} THEN Null
             ELSE LET i == CHOOSE k \in hits : \A j \in hits : k <= j
                  IN  [provider_key |-> ProviderKeys[i], downstream |-> Tail(rest)]

\* lines 94-112: (provider_key, downstream) of the first provider whose prefix the rest
\* of the string starts with and leaves a non-empty downstream; None otherwise
parse_direct_provider(model) ==
    IF ~StartsWith(model, <<"rainymodel/">>) THEN Null
    ELSE LET rest == Tail(model)
             hits == {i \in 1..Len(ProviderKeys) :
                         /\ StartsWith(rest, <<ProviderPrefix(ProviderKeys[i])>>)
                         /\ Tail(rest) # <<>>}
         IN  IF hits = {} THEN Null
             ELSE LET i == CHOOSE k \in hits : \A j \in hits : k <= j
                  IN  [provider_key |-> ProviderKeys[i], downstream |-> Tail(rest)]

\* lines 115-148, with os.getenv reading an unset environment
build_direct_deployment(provider_key, downstream_model) ==
    LET cfg == DIRECT_PROVIDERS[provider_key]
        litellm_model == <<cfg.litellm_prefix>> \o downstream_model
        base == IF "api_base" \in DOMAIN cfg THEN cfg.api_base
                ELSE IF "api_base_env" \in DOMAIN cfg
                     THEN Get(cfg, "api_base_default", <<>>) \o <<"/v1">>
                     ELSE <<>>
        api_key == Get(cfg, "api_key_default", <<>>)
        params == IF base # <<>>
                  THEN [model |-> litellm_model, timeout |-> cfg.timeout,
                        api_base |-> base, api_key |-> api_key]
                  ELSE [model |-> litellm_model, timeout |-> cfg.timeout,
                        api_key |-> api_key]
    IN  [litellm_params |-> params,
         model_info |-> [description |-> <<"Direct ", provider_key, " access">>],
         tier |-> "direct",
         route_info |-> [route |-> cfg.route, upstream |-> cfg.upstream,
                         model |-> litellm_model]]

\* the inputs of the classifier: every api_base that matches one of its rules or none,
\* every model, every description, and entries that leave api_base or model_info out
ClassifyBases ==
    {<<"https://", "ollamafreeapi", ".orcest.ai/v1">>,
     <<"https://router.", "huggingface", ".co/v1">>,
     <<"http://", "164.92.147.36:11434", "/v1">>,
     <<"http://", "178.128.196.3:11434", "/v1">>,
     <<"http://", "localhost:11434", "/v1">>,
     <<"https://", "api.openai.com", "/v1">>}

ClassifyModels ==
    {<<"huggingface/", "Qwen2.5">>, <<"openrouter", "/anthropic/claude">>,
     <<"openai/", "llama3">>}

ClassifyDescriptions ==
    {<<"ollamafree", " ", "community">>, <<"HF", " ", "router">>, <<"Premium">>,
     <<"Internal">>, <<"ollama">>, <<"Premium", " ", "Internal", " ", "ollama">>,
     <<"ollamafree", " ", "HF", " ", "Premium">>, <<"OpenAI", " ", "direct">>}

ClassifyEntries ==
    LET params == {[model |-> m] : m \in ClassifyModels}
                      \cup {[model |-> m, api_base |-> b] :
                                m \in ClassifyModels, b \in ClassifyBases}
        infos == {<<>>} \cup {[description |-> d] : d \in ClassifyDescriptions}
    IN  {[model_name |-> AliasAuto, litellm_params |-> p, model_info |-> i] :
             p \in params, i \in infos}

\* the model strings direct access is asked for: each provider with a downstream of
\* one or two tokens or none, an unknown provider, the aliases, a foreign name
DirectModels ==
    {<<"rainymodel/", ProviderPrefix(ProviderKeys[i])>> \o d :
         i \in 1..Len(ProviderKeys), d \in {<<>>, <<"gpt-4">>, <<"anthropic/", "claude">>}}
    \cup {<<"rainymodel/", "groq/", "llama3">>, <<"rainymodel/", "ollama">>,
          <<"openrouter/", "gpt-4">>, AliasAuto, AliasChat}

\* RainyModelRouter(model_list=[entry]), lines 68-91
Construct(entry) ==
    /\ catalog' = BuildCatalog(<<entry>>)
    /\ UNCHANGED <<moduleVars, hf_until, now, plan, requestVars, appVars>>

\* the two static methods as their docstrings pair them: the string is parsed and,
\* when it names a provider, the deployment is built
DirectCall(model) ==
    /\ LET parsed == parse_direct_provider(model)
       IN  deployments' =
               IF parsed = Null THEN <<>>
               ELSE <<build_direct_deployment(parsed.provider_key, parsed.downstream)>>
    /\ req' = [NoReq EXCEPT !.body = [model |-> model]]
    /\ UNCHANGED <<moduleVars, routerVars, appVars, pc, idx, last_error, route_info, calls,
                   resp, gen, frames, audit, records, served>>

ClassifyInit ==
    /\ catalog = <<>>
    /\ hf_until = 0
    /\ now = 1
    /\ plan = NoPlan
    /\ RequestInit /\ ModuleInit
    /\ AppStarted

ClassifyNext ==
    \/ \E entry \in ClassifyEntries : Construct(entry)
    \/ \E model \in DirectModels : DirectCall(model)

ClassifySpec == ClassifyInit /\ [][ClassifyNext]_vars

(***************************************************************************)
(* routing.py: the HF-credit gate under calls of different durations       *)
(* (lines 195-199), on a router whose alias has a free-hf and a premium    *)
(* deployment.                                                             *)
(***************************************************************************)
GateInit ==
    /\ catalog = BuildCatalog(<<EntryPremium(AliasAuto), EntryHF(AliasAuto)>>)
    /\ hf_until = 0
    /\ now = 1
    /\ plan = NoPlan
    /\ RequestInit /\ ModuleInit
    /\ AppStarted

GateNext ==
    \/ \E d \in 1..MaxGateDuration : mark_hf_credits_exhausted(d)
    \/ \E model \in PlanModels, policy \in PlanPolicies : Plan(model, policy)
    \/ Tick

GateSpec == GateInit /\ [][GateNext]_vars

(***************************************************************************)
(* main.py: _expand_env on one string (lines 78-89), the while loop one    *)
(* iteration at a time.  Here a string is the sequence of its characters.  *)
(***************************************************************************)
\* Python: s.index(sub, from), 1-based; 0 stands for the ValueError
IndexFrom(s, sub, from) ==
    LET hits == {i \in from..(Len(s) - Len(sub) + 1) : SubSeq(s, i, i + Len(sub) - 1) = sub}
    IN  IF hits = {} THEN 0 ELSE CHOOSE i \in hits : \A j \in hits : i <= j

\* os.getenv(var_name, default)
getenv(var_name, default) ==
    IF var_name \in DOMAIN environ THEN environ[var_name] ELSE default

\* the configuration strings: plain text, a variable with and without a default and
\* with text around it, two variables, an empty name, and an unclosed ${ (alone, after
\* a closed one, after a stray brace)
ExpandInputs ==
    {<<"x">>,
     <<"$", "{", "A", "}">>,
     <<"$", "{", "A", ":", "-", "x", "}">>,
     <<"$", "{", "B", ":", "-", "x", "}">>,
     <<"x", "$", "{", "A", "}", "x">>,
     <<"$", "{", "A", "}", "$", "{", "B", "}">>,
     <<"$", "{", "}">>,
     <<"$", "{", "A">>,
     <<"$", "{", "A", "}", "$", "{", "B">>,
     <<"}", "$", "{", "A">>}

\* the environments: empty; A plain; A holding a reference to B; A holding a reference
\* to itself; A holding an unclosed ${
Environments ==
    {<<>>,
     [k \in {<<"A">>} |-> <<"x">>],
     [k \in {<<"A">>, <<"B">>} |-> IF k = <<"A">> THEN <<"$", "{", "B", "}">> ELSE <<"x">>],
     [k \in {<<"A">>} |-> <<"$", "{", "A", "}">>],
     [k \in {<<"A">>} |-> <<"$", "{">>]}

\* `while "${" in obj` holds and obj.index("}", start) finds the brace: lines 81-88
ExpandIteration ==
    /\ expand.pc = "loop"
    /\ expand.iterations < MaxIterations
    /\ LET obj == expand.obj
           start == IndexFrom(obj, <<"$", "{">>, 1)
           end == IF start = 0 THEN 0 ELSE IndexFrom(obj, <<"}">>, start)
           token == SubSeq(obj, start + 2, end - 1)
           sep == IndexFrom(token, <<":", "-">>, 1)
           var_name == IF sep # 0 THEN SubSeq(token, 1, sep - 1) ELSE token
           default == IF sep # 0 THEN SubSeq(token, sep + 2, Len(token)) ELSE <<>>
       IN  /\ start # 0
           /\ end # 0
           /\ expand' = [expand EXCEPT
                  !.obj = SubSeq(obj, 1, start - 1) \o getenv(var_name, default)
                              \o SubSeq(obj, end + 1, Len(obj)),
                  !.iterations = @ + 1]
    /\ UNCHANGED <<routerVars, requestVars, appVars, environ, ssoVars>>

\* `while "${" in obj` holds and obj.index("}", start) raises ValueError: line 83
ExpandRaises ==
    /\ expand.pc = "loop"
    /\ LET start == IndexFrom(expand.obj, <<"$", "{">>, 1)
       IN  start # 0 /\ IndexFrom(expand.obj, <<"}">>, start) = 0
    /\ expand' = [expand EXCEPT !.pc = "raised"]
    /\ UNCHANGED <<routerVars, requestVars, appVars, environ, ssoVars>>

\* the loop condition fails: return obj, line 89
ExpandReturns ==
    /\ expand.pc = "loop"
    /\ IndexFrom(expand.obj, <<"$", "{">>, 1) = 0
    /\ expand' = [expand EXCEPT !.pc = "returned"]
    /\ UNCHANGED <<routerVars, requestVars, appVars, environ, ssoVars>>

\* _expand_env(obj) has been called on a string, under some environment
ExpandInit ==
    /\ RouterInit /\ catalog = <<>>
    /\ RequestInit
    /\ master_key = <<>> /\ _router = FALSE /\ _rm_router = FALSE /\ rate_limits = <<>>
    /\ CollectorInit(DefaultCaps.records, DefaultCaps.logs)
    /\ \E s \in ExpandInputs :
           expand = [pc |-> "loop", input |-> s, obj |-> s, iterations |-> 0]
    /\ environ \in Environments
    /\ SsoInit

ExpandNext ==
    \/ ExpandIteration
    \/ ExpandRaises
    \/ ExpandReturns

ExpandSpec == ExpandInit /\ [][ExpandNext]_vars

(***************************************************************************)
(* main.py: the read-only endpoints (lines 223-286) beside                 *)
(* chat_completions, on a started application.  An endpoint declared with  *)
(* `auth = Depends(_check_auth)` receives what _check_auth returned as its *)
(* argument `auth`; the framework does nothing else with that value.       *)
(***************************************************************************)
\* KNOWN_MODELS, lines 153-193, by id
KNOWN_MODELS == <<AliasAuto, AliasChat, <<"rainymodel/", "code">>, <<"rainymodel/", "agent">>>>

\* bool(os.environ.get(name))
EnvSet(name) == name \in DOMAIN environ /\ environ[name] # <<>>

\* the environments of the endpoints: nothing configured, or the HuggingFace token set
EndpointEnvironments == {<<>>, [k \in {<<"HF_TOKEN">>} |-> <<"hf_secret">>]}

\* GET /v1/models, lines 223-231: the handler asks _check_auth itself
list_models(auth) ==
    /\ resp' = IF ~_check_auth(auth)
               THEN Answer(401, [error |-> "Unauthorized"])
               ELSE Answer(200, [object |-> "list", data |-> KNOWN_MODELS])
    /\ audit' = <<>>
    /\ UNCHANGED <<moduleVars, routerVars, appVars, pc, req, deployments, idx, last_error,
                   route_info, calls, gen, frames, records, served>>

\* GET /v1/providers, lines 234-259: `auth` is bound to _check_auth's result and the
\* body never reads it
list_providers(auth) ==
    /\ LET bound == _check_auth(auth)
           configured(key, base) == EnvSet(key) /\ (base = <<>> \/ EnvSet(base))
       IN  resp' = Answer(200, [providers |->
                       [ollama |-> configured(<<"OLLAMA_API_KEY">>, <<"OLLAMA_BASE_URL">>),
                        openrouter |-> configured(<<"OPENROUTER_API_KEY">>, <<>>),
                        huggingface |-> configured(<<"HF_TOKEN">>, <<>>)]])
    /\ audit' = <<"list_providers">>
    /\ UNCHANGED <<moduleVars, routerVars, appVars, pc, req, deployments, idx, last_error,
                   route_info, calls, gen, frames, records, served>>

\* GET /v1/auto/config, lines 262-286: the same declaration, the same unread argument
auto_config(auth) ==
    /\ LET bound == _check_auth(auth)
           available == SelectSeq(<<<<"HF_TOKEN">>, <<"OLLAMA_BASE_URL">>,
                                    <<"OPENROUTER_API_KEY">>>>, EnvSet)
       IN  resp' = Answer(200, [default_model |-> AliasAuto, default_policy |-> "auto",
                                available_providers |-> available,
                                recommended_models |-> KNOWN_MODELS])
    /\ audit' = <<"auto_config">>
    /\ UNCHANGED <<moduleVars, routerVars, appVars, pc, req, deployments, idx, last_error,
                   route_info, calls, gen, frames, records, served>>

\* the application has started; the master key and the provider keys are set or not
EndpointInit ==
    /\ catalog = BuildCatalog(<<EntryHF(AliasAuto)>>)
    /\ hf_until = 0
    /\ now = 1
    /\ plan = NoPlan
    /\ RequestInit
    /\ master_key \in {<<>>, <<"k1">>}
    /\ _router = TRUE
    /\ _rm_router = TRUE
    /\ rate_limits = <<>>
    /\ CollectorInit(DefaultCaps.records, DefaultCaps.logs)
    /\ expand = NoExpand
    /\ environ \in EndpointEnvironments
    /\ SsoInit

EndpointNext ==
    \/ \E auth \in AuthHeaders : list_models(auth)
    \/ \E auth \in AuthHeaders : list_providers(auth)
    \/ \E auth \in AuthHeaders : auto_config(auth)
    \/ \E auth \in AuthHeaders, raw \in RawBodies :
           ChatCompletions(auth, raw, "auto", "None")

EndpointSpec == EndpointInit /\ [][EndpointNext]_vars

(***************************************************************************)
(* sso_auth.py: the token verification cache (lines 33-85) under two       *)
(* concurrent verify_sso_token coroutines on one event loop.  A coroutine  *)
(* runs without interruption from one await to the next: from its start to *)
(* the POST to the issuer, and from its resumption (the reply has arrived  *)
(* and the client has been closed) to its return.  The clock moves between  *)
(* those steps; the instants followed are the ones around the end of an    *)
(* entry's life.                                                           *)
(***************************************************************************)
_CACHE_TTL_SECONDS == 300
Tokens == {"t1", "t2"}
SsoInstants == {1, 2, _CACHE_TTL_SECONDS + 1, _CACHE_TTL_SECONDS + 2}

\* what the issuer's token-verify endpoint answers: the decoded claims with status 200,
\* an empty body with status 200, a refusal, or no answer at all (httpx raises)
Accepted(token) == [raised |-> FALSE, status |-> 200, payload |-> [sub |-> token]]
EmptyBody == [raised |-> FALSE, status |-> 200, payload |-> <<>>]
Refused == [raised |-> FALSE, status |-> 401, payload |-> [error |-> "invalid_token"]]
TransportError == [raised |-> TRUE, status |-> 0, payload |-> <<>>]
Replies(token) == {Accepted(token), EmptyBody, Refused, TransportError}

\* a verification that caches every answer of status 200, whatever its body
Verified_AnyBody(reply) == ~reply.raised /\ reply.status = 200

\* lines 69-76 and 84-85: the reply is a success iff nothing was raised, the status
\* is 200 and the body is truthy
Verified(reply) == ~reply.raised /\ reply.status = 200 /\ DOMAIN reply.payload # {}

\* an entry that lives one second longer than the TTL
ExpiresAt_Late(t) == t + _CACHE_TTL_SECONDS + 1

\* line 80: time.time() + _CACHE_TTL_SECONDS
ExpiresAt(t) == t + _CACHE_TTL_SECONDS

\* _prune_cache, lines 37-42: the entries with expires_at <= now are deleted
_prune_cache(cache) ==
    [k \in {t \in DOMAIN cache : ~(cache[t].expires_at <= now)} |-> cache[k]]

\* verify_sso_token(token), lines 53-68: the cache is pruned and looked up; a live
\* entry is returned, otherwise the POST is sent and the coroutine waits
VerifyBegin(c, token) ==
    /\ sso[c].pc = "idle"
    /\ LET cache == _prune_cache(_TOKEN_CACHE)
           hit == token \in DOMAIN cache /\ cache[token].expires_at > now
       IN  /\ _TOKEN_CACHE' = cache
           /\ IF hit
              THEN /\ sso_ret' = [token |-> token, value |-> cache[token].payload,
                                  cached |-> TRUE, at |-> now]
                   /\ sso' = sso
              ELSE /\ sso' = [sso EXCEPT ![c] = [pc |-> "awaiting", token |-> token,
                                                 reply |-> NoReply]]
                   /\ sso_ret' = sso_ret
    /\ UNCHANGED <<routerVars, requestVars, appVars, expand, environ, sso_history>>

\* the issuer answers the POST of coroutine c (or the transport fails); the coroutine
\* is resumed later
IssuerReplies(c, reply) ==
    /\ sso[c].pc = "awaiting"
    /\ reply \in Replies(sso[c].token)
    /\ sso' = [sso EXCEPT ![c] = [@ EXCEPT !.pc = "replied", !.reply = reply]]
    /\ sso_history' =
           IF Verified(reply)
           THEN [sso_history EXCEPT ![sso[c].token].accepted_at = now]
           ELSE sso_history
    /\ UNCHANGED <<routerVars, requestVars, appVars, expand, environ, _TOKEN_CACHE,
                   sso_ret>>

\* lines 69-85, the coroutine resumed: a failure returns None, a success is stored
\* with its expiry and returned
VerifyResume(c) ==
    /\ sso[c].pc = "replied"
    /\ LET token == sso[c].token
           reply == sso[c].reply
       IN  IF Verified(reply)
           THEN /\ _TOKEN_CACHE' =
                       [k \in (DOMAIN _TOKEN_CACHE) \cup {token} |->
                           IF k = token
                           THEN [payload |-> reply.payload, expires_at |-> ExpiresAt(now)]
                           ELSE _TOKEN_CACHE[k]]
                /\ sso_history' = [sso_history EXCEPT ![token].stored_at = now]
                /\ sso_ret' = [token |-> token, value |-> reply.payload,
                               cached |-> FALSE, at |-> now]
           ELSE /\ _TOKEN_CACHE' = _TOKEN_CACHE
                /\ sso_history' = sso_history
                /\ sso_ret' = [token |-> token, value |-> Null, cached |-> FALSE,
                               at |-> now]
    /\ sso' = [sso EXCEPT ![c] = IdleCoroutine]
    /\ UNCHANGED <<routerVars, requestVars, appVars, expand, environ>>

\* the clock moves on to a later instant
SsoTick ==
    /\ \E t \in SsoInstants : t > now /\ now' = t
    /\ UNCHANGED <<moduleVars, catalog, hf_until, plan, requestVars, appVars>>

\* sso_auth as imported: an empty cache, no call under way
SsoSpecInit ==
    /\ RouterInit /\ catalog = <<>>
    /\ RequestInit /\ ModuleInit
    /\ master_key = <<>> /\ _router = TRUE /\ _rm_router = TRUE /\ rate_limits = <<>>
    /\ CollectorInit(DefaultCaps.records, DefaultCaps.logs)

SsoNext ==
    \/ \E c \in Coroutines, token \in Tokens : VerifyBegin(c, token)
    \/ \E c \in Coroutines, reply \in UNION {Replies(t) : t \in Tokens} :
           IssuerReplies(c, reply)
    \/ \E c \in Coroutines : VerifyResume(c)
    \/ SsoTick

SsoSpec == SsoSpecInit /\ [][SsoNext]_vars

(***************************************************************************)
(* C1.  A plan is a permutation of the catalog's sequence for its alias:   *)
(* every catalog entry appears exactly once, two entries that are equal    *)
(* in every field included, and nothing else appears.                      *)
(***************************************************************************)
Count(x, s) == Cardinality({i \in 1..Len(s) : s[i] = x})

IsPermutation(s, t) ==
    /\ Len(s) = Len(t)
    /\ \A x \in Range(s) \cup Range(t) : Count(x, s) = Count(x, t)

C1_PlanIsPermutation ==
    plan # NoPlan => IsPermutation(plan.result, deployments_for(plan.model))

(***************************************************************************)
(* Vocabulary of the request claims.                                       *)
(***************************************************************************)
\* the request in progress passed auth, rate limiting and body parsing
Planned == req # NoReq
\* the plan the router gives for the request
PlanOf == get_ordered_deployments(req.body.model, req.policy)
FailedCalls == {i \in 1..Len(calls) : calls[i].outcome # "ok"}
OkCalls == {i \in 1..Len(calls) : calls[i].outcome = "ok"}
Succeeded == resp.kind \in {"json", "stream"} /\ resp.status = 200
SetMax(S) == CHOOSE x \in S : \A y \in S : y <= x
SetMin(S) == CHOOSE x \in S : \A y \in S : x <= y
HasHeader(h) == h \in DOMAIN resp.headers

\* ",".join(labels)
RECURSIVE JoinComma(_)
JoinComma(labels) ==
    IF labels = <<>> THEN <<>>
    ELSE IF Len(labels) = 1 THEN labels
    ELSE <<Head(labels), ",">> \o JoinComma(Tail(labels))

TriedUpstreams(n) == [i \in 1..n |-> calls[i].dep.route_info.upstream]

ChunkFrames(received) ==
    [i \in 1..Len(received) |-> DataFrame(JsonDumps(ChunkData(received[i])))]
IsStreamErrorFrame(f) == Contains(f, <<"\"type\"", ": ", "\"stream_error\"">>)

Is502 ==
    /\ resp.kind = "json"
    /\ resp.status = 502
    /\ resp.body.error.type = "upstream_error"
    /\ HasHeader("x-rainymodel-route") /\ resp.headers["x-rainymodel-route"] = "error"
    /\ HasHeader("x-rainymodel-upstream") /\ resp.headers["x-rainymodel-upstream"] = "none"
    /\ HasHeader("x-rainymodel-model") /\ resp.headers["x-rainymodel-model"] = req.body.model

Exhausted ==
    \/ PlanOf = <<>>
    \/ /\ Len(calls) = Len(PlanOf)
       /\ \A i \in 1..Len(calls) : calls[i].dep = PlanOf[i] /\ calls[i].outcome # "ok"

C3_Answers502IffExhausted ==
    (pc = "done" /\ Planned) =>
        /\ Is502 <=> Exhausted
        /\ ~Exhausted =>
              /\ Succeeded
              /\ OkCalls # {}
              /\ resp.from = SetMin(OkCalls)
              /\ calls[resp.from].dep = PlanOf[resp.from]

(***************************************************************************)
(* C4.  No chat-completion request ends with an uncaught exception: the    *)
(* handler returns a response for every request, the planning step         *)
(* included.                                                               *)
(***************************************************************************)
C4_NoUncaughtException == resp.kind # "exception"

(***************************************************************************)
(* C5.  The route, upstream and model headers of a non-error response are  *)
(* the route_info of the deployment whose call produced the response,      *)
(* never that of a deployment that failed earlier in the request.          *)
(***************************************************************************)
C5_HeadersOfProducer ==
    Succeeded =>
        /\ resp.from = Len(calls)
        /\ calls[resp.from].outcome = "ok"
        /\ resp.headers["x-rainymodel-route"] = calls[resp.from].dep.route_info.route
        /\ resp.headers["x-rainymodel-upstream"] = calls[resp.from].dep.route_info.upstream
        /\ resp.headers["x-rainymodel-model"] = calls[resp.from].dep.route_info.model

C5_Witness ==
    /\ Succeeded
    /\ Len(calls) >= 2
    /\ calls[1].dep.route_info.upstream # calls[Len(calls)].dep.route_info.upstream

(***************************************************************************)
(* C6.  A successful response carries x-rainymodel-fallback-reason exactly *)
(* when an earlier deployment failed in the request, and its value is the  *)
(* type name of the most recent failure; none when the first attempt       *)
(* succeeds.                                                               *)
(***************************************************************************)
C6_FallbackReason ==
    Succeeded =>
        /\ HasHeader("x-rainymodel-fallback-reason") <=> FailedCalls # {}
        /\ FailedCalls # {} =>
              resp.headers["x-rainymodel-fallback-reason"] = calls[SetMax(FailedCalls)].outcome

C6_Witness ==
    /\ Succeeded
    /\ Len(calls) = 3
    /\ calls[1].outcome # calls[2].outcome
    /\ resp.headers["x-rainymodel-fallback-reason"] = calls[2].outcome

(***************************************************************************)
(* C7.  x-rainymodel-tried lists, comma-joined in attempt order, the       *)
(* upstreams attempted: on a success after fallback all but the one that   *)
(* answered, on the final 502 all of them.                                 *)
(***************************************************************************)
C7_TriedHeader ==
    /\ (Succeeded /\ FailedCalls # {}) =>
          /\ HasHeader("x-rainymodel-tried")
          /\ resp.headers["x-rainymodel-tried"] = JoinComma(TriedUpstreams(Len(calls) - 1))
    /\ (resp.status = 502 /\ calls # <<>>) =>
          /\ HasHeader("x-rainymodel-tried")
          /\ resp.headers["x-rainymodel-tried"] = JoinComma(TriedUpstreams(Len(calls)))

(***************************************************************************)
(* C8.  Each request that reaches the pipeline appends exactly one         *)
(* RequestRecord, after its response has terminated: after n requests the  *)
(* collector holds n records.                                              *)
(***************************************************************************)
C8_OneRecordPerRequest ==
    /\ pc = "done" => Len(records) = served
    /\ pc \in {"loop", "streaming"} => Len(records) = served - 1

(***************************************************************************)
(* C9.  A stream sends one data frame per upstream chunk, in the order the *)
(* chunks were received, and ends with the terminator: once the generator  *)
(* has run to its end, whether the upstream ended or raised, data: [DONE]  *)
(* has been emitted exactly once and is the last frame.                    *)
(***************************************************************************)
C9_StreamFrames ==
    /\ gen.pc = "iter" => frames = ChunkFrames(gen.received)
    /\ gen.pc # "done" => Count(DoneFrame, frames) = 0
    /\ gen.pc = "done" =>
          /\ Len(frames) > Len(gen.received)
          /\ SubSeq(frames, 1, Len(gen.received)) = ChunkFrames(gen.received)
          /\ frames[Len(frames)] = DoneFrame
          /\ Count(DoneFrame, frames) = 1
          /\ gen.error = "None" => Len(frames) = Len(gen.received) + 1

C9_Witness ==
    /\ gen.pc = "done"
    /\ gen.error = "None"
    /\ Len(gen.received) = 2
    /\ gen.received[1] # gen.received[2]

(***************************************************************************)
(* C10.  When the upstream raises while its chunks are iterated, the       *)
(* client gets the chunks produced so far, then exactly one stream_error   *)
(* frame, then the terminator, and no further deployment is called.        *)
(***************************************************************************)
C10_StreamError ==
    gen.error # "None" =>
        /\ Len(calls) = resp.from
        /\ calls[Len(calls)].outcome = "ok"
        /\ Cardinality({i \in 1..Len(frames) : IsStreamErrorFrame(frames[i])}) = 1
        /\ Len(frames) >= Len(gen.received) + 1
        /\ SubSeq(frames, 1, Len(gen.received)) = ChunkFrames(gen.received)
        /\ IsStreamErrorFrame(frames[Len(gen.received) + 1])
        /\ gen.pc = "done" =>
              frames = ChunkFrames(gen.received)
                       \o <<ErrorFrame(route_info.upstream, gen.error)>> \o <<DoneFrame>>

C10_Witness ==
    /\ gen.pc = "done"
    /\ gen.error # "None"
    /\ Len(gen.received) >= 1
    /\ resp.from < Len(deployments)

(***************************************************************************)
(* C11.  When the client disconnects while a stream is in progress, the    *)
(* pipeline emits no further frame and a RequestRecord with success=false  *)
(* and error_type="ClientDisconnect" is emitted for the request.           *)
(***************************************************************************)
C11_ClientDisconnect ==
    gen.pc = "closed" =>
        /\ Count(DoneFrame, frames) = 0
        /\ \E i \in 1..Len(records) :
              /\ records[i].success = FALSE
              /\ records[i].error_type = "ClientDisconnect"

(***************************************************************************)
(* Vocabulary of the planning claims.                                      *)
(***************************************************************************)
KnownPolicies == {"auto", "premium", "free", "uncensored"}
GatedTiers == {TIER_FREE_HF, TIER_INTERNAL, TIER_PREMIUM}

\* the place the policy table gives a tier
TableRank(policy, tier) ==
    IF policy = "premium"
    THEN CASE tier = TIER_PREMIUM -> 1 [] tier = TIER_FREE_HF -> 2
           [] tier = TIER_FREE_OLLAMAFREE -> 3 [] OTHER -> 4
    ELSE IF policy = "uncensored"
    THEN CASE tier = TIER_INTERNAL -> 1 [] tier = TIER_FREE_OLLAMAFREE -> 2
           [] tier = TIER_FREE_HF -> 3 [] OTHER -> 4
    ELSE CASE tier = TIER_FREE_HF -> 1 [] tier = TIER_FREE_OLLAMAFREE -> 2
           [] tier = TIER_INTERNAL -> 3 [] OTHER -> 4

\* where a deployment stands in the catalog's sequence
FirstIndex(dep, s) == SetMin({i \in 1..Len(s) : s[i] = dep})
TiersOf(s) == {s[i].tier : i \in 1..Len(s)}
\* no deployment of a tier in Late stands before one of a tier in Early
NoneBefore(r, Late, Early) ==
    \A i \in 1..Len(r), j \in 1..Len(r) :
        (i < j /\ r[i].tier \in Late) => r[j].tier \notin Early
\* the last planning call met the catalog and the gate of this state
PlanIsCurrent ==
    /\ plan # NoPlan
    /\ plan.result = get_ordered_deployments(plan.model, plan.policy)

(***************************************************************************)
(* C12.  With the gate inactive a plan orders the tiers free-hf, internal  *)
(* and premium as the policy table says (auto, free: free-hf, internal,    *)
(* premium; premium: premium, free-hf, internal; uncensored: internal,     *)
(* free-hf, premium), and deployments of one tier keep their catalog       *)
(* order.                                                                  *)
(***************************************************************************)
C12_TierOrder ==
    _is_hf_available =>
        \A model \in PlanModels, policy \in KnownPolicies :
            LET r == get_ordered_deployments(model, policy)
                c == deployments_for(model)
            IN  \A i \in 1..Len(r), j \in 1..Len(r) :
                    i < j =>
                        /\ (r[i].tier \in GatedTiers /\ r[j].tier \in GatedTiers) =>
                              TableRank(policy, r[i].tier) <= TableRank(policy, r[j].tier)
                        /\ r[i].tier = r[j].tier => FirstIndex(r[i], c) < FirstIndex(r[j], c)

C12_Witness ==
    /\ _is_hf_available
    /\ PlanIsCurrent
    /\ plan.policy = "premium"
    /\ Len(plan.result) = 3
    /\ deployments_for(plan.model)[1].tier = TIER_FREE_HF
    /\ plan.result[1].tier = TIER_PREMIUM
    /\ plan.result[2].tier = TIER_PREMIUM
    /\ plan.result[1] # plan.result[2]
    /\ plan.result[3].tier = TIER_FREE_HF

(***************************************************************************)
(* C13.  In every plan the free-ollamafree deployments stand where the     *)
(* policy table puts that tier: after free-hf and before internal and      *)
(* premium under auto and free, after free-hf and before internal under    *)
(* premium, after internal and before free-hf under uncensored.            *)
(***************************************************************************)
C13_OllamaFreePosition ==
    (PlanIsCurrent /\ plan.policy \in KnownPolicies) =>
        LET r == plan.result
            policy == plan.policy
        IN  \A i \in 1..Len(r), j \in 1..Len(r) :
                (/\ i < j
                 /\ TIER_FREE_OLLAMAFREE \in {r[i].tier, r[j].tier}
                 /\ (_is_hf_available \/ TIER_FREE_HF \notin {r[i].tier, r[j].tier}))
                => TableRank(policy, r[i].tier) <= TableRank(policy, r[j].tier)

(***************************************************************************)
(* C14.  A policy value outside auto, premium, free, uncensored gives the  *)
(* plan of policy auto, for every alias and gate state.                    *)
(***************************************************************************)
C14_UnknownPolicyIsAuto ==
    \A model \in PlanModels, policy \in Policies \ KnownPolicies :
        get_ordered_deployments(model, policy) = get_ordered_deployments(model, "auto")

C14_Witness ==
    /\ PlanIsCurrent
    /\ plan.policy = "banana"
    /\ Len(plan.result) = 3
    /\ plan.result # deployments_for(plan.model)
    /\ plan.result = get_ordered_deployments(plan.model, "auto")
    /\ plan.result # get_ordered_deployments(plan.model, "premium")

(***************************************************************************)
(* C15.  Planning is deterministic and free of side effects: a planning    *)
(* call changes neither the catalog nor the gate nor the clock, and        *)
(* whenever the gate is in the state the last planning call met, however   *)
(* the clock and the gate moved since, the same call returns the same      *)
(* sequence.                                                               *)
(***************************************************************************)
C15_PlanningIsPure ==
    /\ [][plan' # plan => (catalog' = catalog /\ hf_until' = hf_until /\ now' = now)]_vars
    /\ []((plan # NoPlan /\ plan.hf_available = _is_hf_available) =>
             plan.result = get_ordered_deployments(plan.model, plan.policy))

C15_Witness ==
    /\ PlanIsCurrent
    /\ hf_until # 0
    /\ now > hf_until
    /\ Len(plan.result) = 3
    /\ plan.result # deployments_for(plan.model)
    /\ TIER_FREE_HF \in TiersOf(plan.result)

(***************************************************************************)
(* C16 as stated.  While now < hf_blocked_until no free-hf deployment      *)
(* appears in any plan, for every alias and policy; once that instant has  *)
(* passed they appear again.                                               *)
(***************************************************************************)
C16_NoFreeHfWhileBlocked ==
    /\ now < hf_until =>
          \A model \in PlanModels, policy \in Policies :
              TIER_FREE_HF \notin TiersOf(get_ordered_deployments(model, policy))
    /\ now > hf_until =>
          \A model \in PlanModels, policy \in Policies :
              TIER_FREE_HF \in TiersOf(deployments_for(model)) =>
                  TIER_FREE_HF \in TiersOf(get_ordered_deployments(model, policy))

(***************************************************************************)
(* C16 as amended.  While now < hf_blocked_until the free-hf tier is       *)
(* skipped in the tier order: in every plan, for every alias and policy,   *)
(* no free-hf deployment stands before an internal or premium one (the     *)
(* free-hf deployments are still in the plan, appended by the trailing     *)
(* pass); once that instant has passed they stand at the free-hf tier's    *)
(* place again.                                                            *)
(***************************************************************************)
C16_FreeHfDemotedWhileBlocked ==
    /\ now < hf_until =>
          \A model \in PlanModels, policy \in Policies :
              LET r == get_ordered_deployments(model, policy)
              IN  /\ NoneBefore(r, {TIER_FREE_HF}, {TIER_INTERNAL, TIER_PREMIUM})
                  /\ TIER_FREE_HF \in TiersOf(deployments_for(model)) => TIER_FREE_HF \in TiersOf(r)
    /\ now > hf_until =>
          \A model \in PlanModels :
              /\ NoneBefore(get_ordered_deployments(model, "auto"),
                            {TIER_INTERNAL, TIER_PREMIUM}, {TIER_FREE_HF})
              /\ NoneBefore(get_ordered_deployments(model, "premium"),
                            {TIER_INTERNAL}, {TIER_FREE_HF})
              /\ NoneBefore(get_ordered_deployments(model, "uncensored"),
                            {TIER_PREMIUM}, {TIER_FREE_HF})

C16_Witness ==
    /\ now < hf_until
    /\ PlanIsCurrent
    /\ ~plan.hf_available
    /\ plan.policy = "auto"
    /\ Len(plan.result) = 3
    /\ deployments_for(plan.model)[1].tier = TIER_FREE_HF
    /\ plan.result[1].tier = TIER_INTERNAL
    /\ plan.result[2].tier = TIER_PREMIUM
    /\ plan.result[3].tier = TIER_FREE_HF

(***************************************************************************)
(* C17.  While the gate is active, for every policy: when the alias has a  *)
(* deployment of a tier other than free-hf, the deployment                 *)
(* select_deployment returns, the first of the plan, is not a free-hf one. *)
(***************************************************************************)
C17_FirstIsNotFreeHf ==
    now < hf_until =>
        \A model \in PlanModels, policy \in Policies :
            (TiersOf(deployments_for(model)) \ {TIER_FREE_HF}) # {} =>
                LET first == select_deployment(model, policy)
                IN  first # <<>> /\ first[1].tier # TIER_FREE_HF

(***************************************************************************)
(* C18.  After mark_hf_credits_exhausted(d) at time t the gate is active   *)
(* exactly while now < t + d: the free-hf tier is skipped in the tier      *)
(* order at those instants and planned at its place at now = t + d and     *)
(* later; before any call the gate is inactive.                            *)
(***************************************************************************)
C18_GateWindow ==
    \A model \in PlanModels :
        LET r == get_ordered_deployments(model, "auto")
        IN  /\ now < hf_until => NoneBefore(r, {TIER_FREE_HF}, {TIER_INTERNAL, TIER_PREMIUM})
            /\ now >= hf_until => NoneBefore(r, {TIER_INTERNAL, TIER_PREMIUM}, {TIER_FREE_HF})

(***************************************************************************)
(* Vocabulary of the parameter-bag claims.                                 *)
(***************************************************************************)
\* the passthrough keys the request supplies: present and not null
Supplied(body) ==
    {k \in Range(PassthroughKeys) : k \in DOMAIN body /\ body[k] # Null}
\* the keys the loop sets whatever the body's passthrough keys are
LoopKeys(body) ==
    {"messages"} \cup (IF "stream" \in DOMAIN body /\ body.stream THEN {"stream"} ELSE {})
\* the litellm_params the deployment was constructed with
ConstructedParams(dep) ==
    (CHOOSE e \in EntryPool \cup {EntryTuned(AliasAuto)} :
         e.litellm_params.model = dep.litellm_params.model).litellm_params
ConstructedCatalogs == {BuildCatalog(model_list) : model_list \in BagModelLists}

(***************************************************************************)
(* C19.  The parameter bag of an upstream call holds the deployment's own  *)
(* parameters, the request's messages, stream = true for a stream, and of  *)
(* the body only the passthrough keys that are present and not null: no    *)
(* other body key (model included) reaches the call, and a null-valued     *)
(* body key does not overwrite a deployment parameter.                     *)
(***************************************************************************)
C19_ParameterBag ==
    \A i \in 1..Len(calls) :
        LET p == calls[i].params
            d == calls[i].dep.litellm_params
            body == req.body
        IN  /\ DOMAIN p = (DOMAIN d) \cup LoopKeys(body) \cup Supplied(body)
            /\ p.messages = Get(body, "messages", <<>>)
            /\ "stream" \in LoopKeys(body) => p.stream = TRUE
            /\ \A k \in Supplied(body) : p[k] = body[k]
            /\ \A k \in (DOMAIN d) \ (LoopKeys(body) \cup Supplied(body)) : p[k] = d[k]

C19_Witness ==
    /\ calls # <<>>
    /\ "temperature" \in DOMAIN calls[1].dep.litellm_params
    /\ "temperature" \in DOMAIN req.body /\ req.body.temperature = Null
    /\ "logit_bias" \in DOMAIN req.body
    /\ calls[1].params.temperature = calls[1].dep.litellm_params.temperature
    /\ calls[1].params.stream = TRUE
    /\ calls[1].params.model # req.body.model

(***************************************************************************)
(* C20.  The catalog is unchanged by every operation after construction:   *)
(* no request, planning call or mark_hf_credits_exhausted call changes a   *)
(* deployment, so every deployment keeps the litellm_params, tier and      *)
(* route_info it was constructed with, and a parameter bag holds nothing   *)
(* but the constructed parameters and what its own request supplies.       *)
(***************************************************************************)
C20_CatalogReadOnly ==
    /\ [][catalog' = catalog]_vars
    /\ [](/\ catalog \in ConstructedCatalogs
          /\ \A i \in 1..Len(calls) :
                LET p == calls[i].params
                    own == LoopKeys(req.body) \cup Supplied(req.body)
                    built == ConstructedParams(calls[i].dep)
                IN  /\ p.messages = Get(req.body, "messages", <<>>)
                    /\ \A k \in (DOMAIN p) \ own : k \in DOMAIN built /\ p[k] = built[k])

C20_Witness ==
    /\ served = 2
    /\ Succeeded
    /\ Len(calls) = 2
    /\ plan # NoPlan
    /\ hf_until # 0
    /\ Supplied(req.body) = {}
    /\ "temperature" \notin DOMAIN calls[1].params
    /\ "temperature" \in DOMAIN calls[2].params
    /\ calls[2].params.temperature = [v |-> "0.2"]

(***************************************************************************)
(* C21: a request whose model is not a known alias (a foreign name such as *)
(* "gpt-4", or an unknown name under the rainymodel/ prefix) is planned as *)
(* rainymodel/auto: the model a request is planned for is always a known   *)
(* alias, and a request planned as rainymodel/auto ends in a 502 with zero *)
(* upstream calls and the message "No deployments found for ..." only if   *)
(* rainymodel/auto has no deployment in the catalog.                       *)
(***************************************************************************)
C21_UnknownModelIsAuto ==
    Planned =>
        /\ is_known_alias(req.body.model)
        /\ (/\ pc = "done"
            /\ resp.status = 502
            /\ req.body.model = AliasAuto
            /\ calls = <<>>)
           => /\ Get(catalog, AliasAuto, <<>>) = <<>>
              /\ resp.body = FailureBody(AliasAuto, "None")

(***************************************************************************)
(* Rate-limit vocabulary.                                                  *)
(***************************************************************************)
LimiterKeys == {<<"k1">>, <<"k2">>, <<"anonymous">>}
WindowOf(limits, k) == Get(limits, k, <<>>)
\* the admissions of key k that are less than RATE_LIMIT_WINDOW seconds old at instant t
AdmittedWithin(limits, k, t) ==
    Cardinality({i \in 1..Len(WindowOf(limits, k)) :
                    t - WindowOf(limits, k)[i] < RATE_LIMIT_WINDOW})
RequestStep == served' # served

(***************************************************************************)
(* C22: an unauthorised request is answered 401 and a rate-limited request *)
(* 429; neither makes an upstream call, and neither adds a timestamp to a  *)
(* caller key's window: the 401 leaves the rate-limit table as it was (the *)
(* window is not consulted), the 429 leaves every window without a new     *)
(* timestamp and is answered only when some key's window is full.          *)
(***************************************************************************)
C22_RejectedAddNothing ==
    [][RequestStep =>
        /\ resp'.status = 401 =>
              /\ master_key # <<>>
              /\ rate_limits' = rate_limits
              /\ calls' = <<>> /\ pc' = "done"
        /\ resp'.status = 429 =>
              /\ \E k \in LimiterKeys :
                    AdmittedWithin(rate_limits, k, now) >= RATE_LIMIT_MAX
              /\ \A k \in LimiterKeys :
                    /\ Count(now, WindowOf(rate_limits', k))
                          = Count(now, WindowOf(rate_limits, k))
                    /\ Len(WindowOf(rate_limits', k)) <= Len(WindowOf(rate_limits, k))
              /\ calls' = <<>> /\ pc' = "done"]_vars

C22_Witness ==
    /\ master_key = <<"k1">>
    /\ resp.status = 429
    /\ audit = <<"rate_limited">>
    /\ Len(WindowOf(rate_limits, <<"k1">>)) = RATE_LIMIT_MAX
    /\ calls = <<>>

(***************************************************************************)
(* C23: at every instant each key has at most RATE_LIMIT_MAX admissions    *)
(* less than RATE_LIMIT_WINDOW seconds old, and the limiter admits a key   *)
(* exactly when it has fewer: a timestamp of age 59 counts, one of age 60  *)
(* does not.  An admission adds one timestamp to one key's window, no      *)
(* admission still inside the window is forgotten, and a request changes   *)
(* no other key's window.                                                  *)
(***************************************************************************)
C23_SlidingWindow ==
    /\ [](\A k \in LimiterKeys :
            /\ AdmittedWithin(rate_limits, k, now) <= RATE_LIMIT_MAX
            /\ _check_rate_limit(k)[1]
                  <=> AdmittedWithin(rate_limits, k, now) < RATE_LIMIT_MAX)
    /\ [][/\ \A k \in LimiterKeys : \A t \in LimiterInstants :
                now' - t < RATE_LIMIT_WINDOW =>
                    Count(t, WindowOf(rate_limits', k)) >= Count(t, WindowOf(rate_limits, k))
          /\ RequestStep =>
                \A k1 \in LimiterKeys, k2 \in LimiterKeys :
                    (k1 # k2 /\ WindowOf(rate_limits', k1) # WindowOf(rate_limits, k1))
                        => WindowOf(rate_limits', k2) = WindowOf(rate_limits, k2)
          /\ (RequestStep /\ resp'.status \notin {401, 429}) =>
                \E k \in LimiterKeys :
                    /\ AdmittedWithin(rate_limits, k, now) < RATE_LIMIT_MAX
                    /\ Count(now, WindowOf(rate_limits', k))
                          = Count(now, WindowOf(rate_limits, k)) + 1]_vars

C23_Witness ==
    /\ now = RATE_LIMIT_WINDOW + 1
    /\ master_key = <<>>
    /\ resp.status = 429
    /\ Count(now, WindowOf(rate_limits, <<"k1">>)) >= 1
    /\ Count(RATE_LIMIT_WINDOW, WindowOf(rate_limits, <<"k1">>)) >= 1
    /\ AdmittedWithin(rate_limits, <<"k1">>, now) = RATE_LIMIT_MAX
    /\ Len(WindowOf(rate_limits, <<"k2">>)) = 1

(***************************************************************************)
(* C24: whenever the pipeline is not initialised (before startup has       *)
(* completed, after a startup that failed, after shutdown) a request that  *)
(* is authorised and admitted by the rate limiter is answered 503 without  *)
(* an upstream call, and no request handler runs in a state where one of   *)
(* the two routers is set and the other is not.                            *)
(***************************************************************************)
C24_NotReadyIs503 ==
    [][RequestStep =>
        /\ ((~_router \/ ~_rm_router) /\ resp'.status \notin {401, 429})
              => (resp'.status = 503 /\ calls' = <<>> /\ pc' = "done")
        /\ _router <=> _rm_router]_vars

(***************************************************************************)
(* Collector vocabulary: the steps of a thread.                            *)
(***************************************************************************)
Holds(t) == threads[t].pc = "locked"
Inserts(t, op) == Holds(t) /\ threads[t].op = op /\ threads'[t].pc = "idle"
\* what a bounded FIFO of capacity cap holds after x is inserted into store
FifoAfter(store, x, cap) ==
    IF Len(store) < cap THEN store \o <<x>>
    ELSE SubSeq(store, 2, Len(store)) \o <<x>>

C28_MutexAndSnapshot ==
    /\ [](/\ Cardinality({t \in Threads : Holds(t)}) <= 1
          /\ \A t \in Threads : Holds(t) => lock = t)
    /\ [][/\ (records' # records \/ logs' # logs) =>
                \E t \in Threads : Holds(t) /\ lock = t /\ ~Holds(t)'
          /\ \A t \in Threads :
                /\ (Holds(t) /\ threads'[t].pc = "computing") =>
                      /\ records' = records /\ logs' = logs
                      /\ threads'[t].snap = IF threads[t].op = "get_system_log"
                                            THEN logs ELSE records
                /\ (threads[t].pc = "computing" /\ threads'[t].pc = "idle") =>
                      /\ returned'.thread = t
                      /\ returned'.op = threads[t].op
                      /\ returned'.value = Aggregate(threads[t].op, threads[t].snap)]_vars

\* a query returned the overview of its copy after another thread's insert had
\* changed the store, while the other thread holds the lock again
C28_Witness ==
    /\ returned.op = "get_overview"
    /\ returned.value # get_overview(records, now)
    /\ returned.value.total = 1
    /\ \E t \in Threads : t # returned.thread /\ Holds(t) /\ lock = t

(***************************************************************************)
(* C26: in every state of the collector the overview's total is the number *)
(* of retained records, ok the number of retained records with success     *)
(* true, and ok + err = total; all three are 0 when the store is empty.    *)
(***************************************************************************)
C26_OverviewCounts ==
    returned.op = "get_overview" =>
        /\ returned.value.total = Len(records)
        /\ returned.value.ok = Cardinality({i \in 1..Len(records) : records[i].success})
        /\ returned.value.ok + returned.value.err = returned.value.total
        /\ records = <<>> =>
              (returned.value.total = 0 /\ returned.value.ok = 0 /\ returned.value.err = 0)

\* the overview of a full store that holds successes and failures
C26_Witness ==
    /\ returned.op = "get_overview"
    /\ Len(records) = caps.records
    /\ returned.value.ok >= 1
    /\ returned.value.err >= 1
    /\ \E i \in 1..Len(records) : ~records[i].success /\ records[i].error_type = "None"

(***************************************************************************)
(* C27: for every non-empty multiset of non-negative integer latencies, of *)
(* any size (in particular more than 20 records), the overview satisfies   *)
(* min_ms <= avg_ms <= p95_ms <= p99_ms <= max_ms.                         *)
(***************************************************************************)
C27_PercentileChain ==
    (returned.op = "get_overview" /\ records # <<>>) =>
        /\ returned.value.min_ms <= returned.value.avg_ms
        /\ returned.value.avg_ms <= returned.value.p95_ms
        /\ returned.value.p95_ms <= returned.value.p99_ms
        /\ returned.value.p99_ms <= returned.value.max_ms

(***************************************************************************)
(* C27, amended: for every non-empty multiset of non-negative integer      *)
(* latencies, of any size, the overview satisfies min_ms <= avg_ms <=      *)
(* max_ms and min_ms <= p95_ms <= p99_ms <= max_ms, where pXX is the       *)
(* sorted-list element at index min(floor(len*p), len-1) and avg_ms is the *)
(* integer part of the mean.  (The records arrive in ascending order of    *)
(* latency, so the store is the sorted list.)                              *)
(***************************************************************************)
C27_PercentileBounds ==
    (returned.op = "get_overview" /\ records # <<>>) =>
        LET n == Len(records)
            At(pct) == records[(IF (n * pct) \div 100 < n - 1
                                THEN (n * pct) \div 100 ELSE n - 1) + 1].latency_ms
            total == SumSeq([i \in 1..n |-> records[i].latency_ms])
            v == returned.value
        IN  /\ v.min_ms <= v.avg_ms /\ v.avg_ms <= v.max_ms
            /\ v.min_ms <= v.p95_ms /\ v.p95_ms <= v.p99_ms /\ v.p99_ms <= v.max_ms
            /\ v.p95_ms = At(95) /\ v.p99_ms = At(99)
            /\ v.avg_ms * n <= total /\ total < (v.avg_ms + 1) * n
            /\ \A i \in 1..n : v.min_ms <= records[i].latency_ms
                               /\ records[i].latency_ms <= v.max_ms

\* more than 20 records, the mean above the 95th percentile, the percentiles apart
C27_Witness ==
    /\ returned.op = "get_overview"
    /\ Len(records) > 20
    /\ returned.value.avg_ms > returned.value.p95_ms
    /\ returned.value.p95_ms < returned.value.p99_ms
    /\ returned.value.min_ms < returned.value.p95_ms

(***************************************************************************)
(* C29: for every limit >= 0 and every store content, get_request_log      *)
(* returns exactly min(limit, number of retained records) entries, which   *)
(* are the most recently inserted records, newest first; limit = 0 returns *)
(* no entry.                                                               *)
(***************************************************************************)
C29_RequestLog ==
    returned.op = "get_request_log" =>
        LET rows == returned.value.rows
            n == Len(records)
            k == IF returned.arg < n THEN returned.arg ELSE n
        IN  /\ Len(rows) = k
            /\ \A i \in 1..Len(rows) :
                  i <= n => rows[i] = LogRow(records[n - i + 1])
            /\ returned.arg = 0 => rows = <<>>

(***************************************************************************)
(* C30: each aggregation over records (overview counts, providers, models, *)
(* financial, errors, policies, fallbacks) depends only on the multiset of *)
(* retained records: on every reordering of the retained records the query *)
(* returns the value it returned, the order of its rows included.          *)
(***************************************************************************)
Reorderings(recs) ==
    {s \in [1..Len(recs) -> Range(recs)] : IsPermutation(s, recs)}
CountsOf(overview) == [total |-> overview.total, ok |-> overview.ok, err |-> overview.err]

C30_MultisetOnly ==
    returned.op \in QueryOps =>
        \A s \in Reorderings(records) :
            IF returned.op = "get_overview"
            THEN CountsOf(get_overview(s, now)) = CountsOf(returned.value)
            ELSE QueryValue(returned.op, returned.arg, s) = returned.value

\* the deployments the router holds, over every alias
CatalogDeployments == UNION {Range(catalog[k]) : k \in DOMAIN catalog}

\* the classifier's four rules, read off a stored deployment
MatchesOllamaFree(d) ==
    \/ Contains(Get(d.litellm_params, "api_base", <<>>), <<"ollamafreeapi">>)
    \/ Contains(Lower(Get(d.model_info, "description", <<>>)), <<"ollamafree">>)

MatchesHF(d) ==
    \/ Contains(Get(d.litellm_params, "api_base", <<>>), <<"huggingface">>)
    \/ Contains(Lower(Get(d.model_info, "description", <<>>)), <<"hf">>)
    \/ StartsWith(Get(d.litellm_params, "model", <<>>), <<"huggingface/">>)

MatchesPremium(d) ==
    \/ Contains(Get(d.litellm_params, "model", <<>>), <<"openrouter">>)
    \/ Contains(Lower(Get(d.model_info, "description", <<>>)), <<"premium">>)

MatchesInternal(d) ==
    \/ \E host \in {OllamaPrimary, OllamaSecondary, OllamaBase} :
           Contains(Get(d.litellm_params, "api_base", <<>>), host)
    \/ Contains(Lower(Get(d.model_info, "description", <<>>)), <<"internal">>)
    \/ Contains(Lower(Get(d.model_info, "description", <<>>)), <<"ollama">>)

(***************************************************************************)
(* C31: the classifier's rules are evaluated in order and the first match  *)
(* wins: a deployment matching the ollamafree rule is free-ollamafree      *)
(* whatever else it matches; otherwise one matching the hf rule is         *)
(* free-hf; otherwise one matching the openrouter/premium rule is premium  *)
(* even if its api_base or description marks it internal; otherwise one    *)
(* matching the Ollama-host/internal rule is internal; otherwise premium.  *)
(* Every deployment of the catalog carries exactly one of the four tiers.  *)
(***************************************************************************)
C31_FirstMatchWins ==
    \A d \in CatalogDeployments :
        /\ d.tier \in {TIER_FREE_OLLAMAFREE, TIER_FREE_HF, TIER_INTERNAL, TIER_PREMIUM}
        /\ MatchesOllamaFree(d) => d.tier = TIER_FREE_OLLAMAFREE
        /\ (~MatchesOllamaFree(d) /\ MatchesHF(d)) => d.tier = TIER_FREE_HF
        /\ (~MatchesOllamaFree(d) /\ ~MatchesHF(d) /\ MatchesPremium(d)) =>
               d.tier = TIER_PREMIUM
        /\ (~MatchesOllamaFree(d) /\ ~MatchesHF(d) /\ ~MatchesPremium(d)
                /\ MatchesInternal(d)) => d.tier = TIER_INTERNAL
        /\ (~MatchesOllamaFree(d) /\ ~MatchesHF(d) /\ ~MatchesPremium(d)
                /\ ~MatchesInternal(d)) => d.tier = TIER_PREMIUM

\* a deployment on an Ollama host whose model goes through openrouter: premium
C31_Witness ==
    \E d \in CatalogDeployments :
        /\ ~MatchesOllamaFree(d) /\ ~MatchesHF(d)
        /\ MatchesPremium(d) /\ MatchesInternal(d)
        /\ Contains(Get(d.litellm_params, "api_base", <<>>), OllamaPrimary)
        /\ d.tier = TIER_PREMIUM

\* the upstream labels of the glossary
KnownVendors ==
    {"hf", "ollama", "openrouter", "openai", "anthropic", "deepseek", "gemini", "xai",
     "ollamafreeapi"}

(***************************************************************************)
(* C32: every deployment of the catalog, of whatever tier, and every       *)
(* deployment build_direct_deployment has built carries a route among      *)
(* free, internal, direct, premium and a known vendor label as upstream;   *)
(* the route follows the tier as free-* -> free, internal -> internal,     *)
(* premium -> premium.                                                     *)
(***************************************************************************)
C32_RouteInfo ==
    \A d \in CatalogDeployments \cup Range(deployments) :
        /\ d.route_info.route \in {"free", "internal", "direct", "premium"}
        /\ d.route_info.upstream \in KnownVendors
        /\ d.tier \in {TIER_FREE_OLLAMAFREE, TIER_FREE_HF} => d.route_info.route = "free"
        /\ d.tier = TIER_INTERNAL => d.route_info.route = "internal"
        /\ d.tier = TIER_PREMIUM => d.route_info.route = "premium"

\* an internal deployment in the catalog beside a built direct deployment
C32_Witness ==
    /\ \E d \in CatalogDeployments : d.tier = TIER_INTERNAL
    /\ \E d \in Range(deployments) : d.tier = "direct" /\ d.route_info.upstream = "ollama"

(***************************************************************************)
(* C33: a chat-completion request whose model is                           *)
(* rainymodel/<provider>/<downstream>, with a provider of DIRECT_PROVIDERS *)
(* and a non-empty downstream (the strings parse_direct_provider accepts), *)
(* is served by exactly one deployment, the one of that provider for that  *)
(* downstream model, and is not answered 502 for lack of deployments.      *)
(***************************************************************************)
C33_DirectAccessServed ==
    LET parsed == parse_direct_provider(req.body.model)
    IN  (pc \in {"loop", "streaming", "done"} /\ parsed # Null) =>
            /\ deployments =
                   <<build_direct_deployment(parsed.provider_key, parsed.downstream)>>
            /\ pc = "done" => resp.status # 502

(***************************************************************************)
(* C34: over any sequence of mark_hf_credits_exhausted calls, of any       *)
(* durations, and time steps, hf_blocked_until never decreases: a later    *)
(* call with a shorter duration does not bring the end of the block        *)
(* forward.                                                                *)
(***************************************************************************)
C34_GateMonotonic == [][hf_until' >= hf_until]_vars

\* the retained entries a filter makes eligible: all of them without a filter, else
\* those logged with that level, in whatever letter case
Eligible(level) ==
    IF level = "None" THEN logs
    ELSE SelectSeq(logs, LAMBDA l : Upper(l.level) = Upper(level))

(***************************************************************************)
(* C35: get_system_log(limit, level), for a limit of at least 1, returns   *)
(* in insertion order the last `limit` of the retained entries that were   *)
(* logged with that level, the filter applied before the limit; an entry   *)
(* logged with level L is eligible for the filter L whatever the letter    *)
(* case it was logged in; without a level the last `limit` entries of all  *)
(* levels are returned.                                                    *)
(***************************************************************************)
C35_SystemLog ==
    (returned.op = "get_system_log" /\ returned.arg.limit >= 1) =>
        LET eligible == Eligible(returned.arg.level)
            n == Min2(returned.arg.limit, Len(eligible))
        IN  returned.value.rows = SubSeq(eligible, Len(eligible) - n + 1, Len(eligible))

(***************************************************************************)
(* C36: in get_financial every retained record is counted in exactly one   *)
(* of the three tier_dist buckets, a record with route "direct" under      *)
(* premium: free + internal + premium is the number of retained records,   *)
(* and saving_pct is (free + internal) / total * 100.                      *)
(***************************************************************************)
C36_TierDistCoversAll ==
    returned.op = "get_financial" =>
        LET td == returned.value.tier_dist
            N(routes) == Cardinality({i \in 1..Len(records) : records[i].route \in routes})
        IN  /\ td.free = N({"free"})
            /\ td.internal = N({"internal"})
            /\ td.premium = N({"premium", "direct"})
            /\ td.free + td.internal + td.premium = Len(records)
            /\ records # <<>> =>
                   returned.value.saving_pct =
                       RoundTenths((td.free + td.internal) * 100, Len(records))

(***************************************************************************)
(* C37: environment expansion of a string terminates for every string and  *)
(* every environment and leaves no ${ behind: it never raises on an        *)
(* unclosed ${, the loop never comes back to a string it has already       *)
(* held (which, the loop being deterministic, would repeat for ever), and  *)
(* the string returned holds no ${.                                        *)
(***************************************************************************)
C37_ExpansionTotal ==
    /\ expand.pc # "raised"
    /\ ~(expand.pc = "loop" /\ expand.iterations >= 1 /\ expand.obj = expand.input)
    /\ expand.pc = "returned" => ~Contains(expand.obj, <<"$", "{">>)

(***************************************************************************)
(* C38: the audit event chat_completion_success is emitted only for a      *)
(* request that completes successfully: for a streaming request it is not  *)
(* in the audit trail before the upstream stream has been delivered to its *)
(* end, and never for a request whose stream raised on the way.            *)
(***************************************************************************)
C38_SuccessAuditedAfterStream ==
    ("chat_completion_success" \in Range(audit) /\ resp.kind = "stream") =>
        /\ gen.pc = "done"
        /\ gen.error = "None"

\* a step that answers a request to one of the three read-only endpoints with this
\* Authorization header (a chat-completion step counts the request in `served`)
ReadOnlyRequest(auth) ==
    /\ served' = served
    /\ (list_models(auth) \/ list_providers(auth) \/ auto_config(auth))

(***************************************************************************)
(* C39: a request to /v1/models, /v1/providers, /v1/auto/config or         *)
(* /v1/chat/completions that carries no Bearer token equal to the master   *)
(* key, while the key is set, is answered 401 with the error body and      *)
(* nothing else (so a chat-completion request answered otherwise carried   *)
(* the key, which the rate limiter then knows); with the key unset every   *)
(* request is authorised.                                                  *)
(***************************************************************************)
C39_GuardedEndpoints ==
    [][/\ \A auth \in AuthHeaders :
             /\ (master_key = <<>>) => _check_auth(auth)
             /\ (master_key # <<>> /\ auth # <<"Bearer ">> \o master_key
                     /\ ReadOnlyRequest(auth)) =>
                    (resp'.status = 401 /\ resp'.body = [error |-> "Unauthorized"])
       /\ (served' # served /\ master_key # <<>> /\ resp'.status # 401) =>
              master_key \in DOMAIN rate_limits']_vars

\* the parts of C40 that do not depend on where the 300 seconds are counted from: what
\* the cache returns is the claims the issuer gave for that very token, the entry it
\* came from had not expired, and nothing enters the cache for a token the issuer never
\* accepted (a non-200 status, an empty body and a transport error store nothing)
CacheSound ==
    /\ sso_ret.cached =>
           /\ sso_history[sso_ret.token].accepted_at # 0
           /\ sso_ret.value = [sub |-> sso_ret.token]
    /\ (sso_ret.cached /\ sso_ret.at = now) =>
           /\ sso_ret.token \in DOMAIN _TOKEN_CACHE
           /\ ~(_TOKEN_CACHE[sso_ret.token].expires_at <= now)
    /\ \A t \in DOMAIN _TOKEN_CACHE :
           /\ sso_history[t].accepted_at # 0
           /\ sso_history[t].stored_at # 0
           /\ _TOKEN_CACHE[t].payload = [sub |-> t]

(***************************************************************************)
(* C40 as stated: under any interleaving of the verify_sso_token calls, a  *)
(* payload is returned from the cache only if the issuer accepted that     *)
(* same token less than 300 seconds before the return; a failed            *)
(* verification is never cached and an entry whose expires_at <= now is    *)
(* never returned.                                                         *)
(***************************************************************************)
C40_FreshSinceAccepted ==
    /\ CacheSound
    /\ sso_ret.cached =>
           \/ sso_ret.at - sso_history[sso_ret.token].accepted_at < _CACHE_TTL_SECONDS
           \/ sso_history[sso_ret.token].accepted_at > sso_ret.at

(***************************************************************************)
(* C40, amended: a payload is returned from the cache only if the issuer   *)
(* accepted that same token and a verify_sso_token call stored the payload *)
(* less than 300 seconds before the return; a failed verification is never *)
(* cached and an entry whose expires_at <= now is never returned.          *)
(***************************************************************************)
C40_FreshSinceStored ==
    /\ CacheSound
    /\ sso_ret.cached =>
           \/ sso_ret.at - sso_history[sso_ret.token].stored_at < _CACHE_TTL_SECONDS
           \/ sso_history[sso_ret.token].stored_at > sso_ret.at

\* a payload served from the cache 299 seconds after it was stored and 300 seconds
\* after the issuer accepted the token, while the other coroutine waits for the issuer
C40_Witness ==
    /\ sso_ret.cached
    /\ sso_ret.at = now
    /\ now - sso_history[sso_ret.token].stored_at = _CACHE_TTL_SECONDS - 1
    /\ now - sso_history[sso_ret.token].accepted_at = _CACHE_TTL_SECONDS
    /\ \E c \in Coroutines : sso[c].pc = "awaiting"

====
